---- MODULE Spec2Model ----
(***************************************************************************)
(* Model of the touchstone-registry connection chassis:                    *)
(*   pkg/chassis  Server.Start / Server.Stop, the QUIC accept loop and its  *)
(*                ALPN demultiplexer;                                       *)
(*   pkg/mcpquic  Handler.ServeConn (stream accept, magic-byte handshake,   *)
(*                session registration, read/dispatch loop) and             *)
(*                session.writeNotifications.                               *)
(* The QUIC library, the HTTP servers and the RPC server (mcp-go) are       *)
(* modelled at their call boundary.                                         *)
(* After the connection chassis come the parts of the repository that run   *)
(* on their own: the TLS configurations Start builds, the HTTP middleware,  *)
(* kit.Chain, ValidateMagicBytes on a reader, batch classification,         *)
(* Registry.Classify, downloadFile and SourceDB.                            *)
(***************************************************************************)
EXTENDS Integers, Sequences, FiniteSets, TLC

(* ------------------------------ bounds -------------------------------- *)
MaxLines == 2        \* lines the clients send after their magic bytes, in total
MaxNotifs == 1       \* notifications the RPC server pushes, in total
MaxStops == 2        \* calls of Server.Stop
MaxChain == 2        \* middlewares given to Chain after the first
MaxRead == 5         \* bytes in the reader given to ValidateMagicBytes
MaxAddr == 4         \* characters of the listen address
MaxBatch == 2        \* terms a batch may hold; stands for the 100 of endpoints.go 47
MaxArg == 4          \* characters of the "terms" argument of classify_batch
MaxSeed == 2         \* adapters in one call of Seed
MaxStarts == 2       \* calls of Server.Start on one chassis
MaxQueued == 3       \* notifications pushed to one session in a burst

(* ------------------------- program constants -------------------------- *)
StreamErrorNoError == 0
StreamErrorProtocolConfusion == 2
StreamErrorMessageTooLarge == 3
ConnErrorNoError == 0
ConnErrorUnsupportedALPN == 1
ConnErrorProtocolViolation == 3
CodeMCPNotEnabled == 16      \* quic.ApplicationErrorCode(0x10) in Start
CodeUnknownALPN == 17        \* quic.ApplicationErrorCode(0x11) in Start
ErrChCap == 2                \* make(chan error, 2)
NotifCap == 100              \* make(chan mcp.JSONRPCNotification, 100)
MagicLen == 4                \* make([]byte, 4)
MaxAttempts == 3             \* attempt < 3 in downloadFile

ALPNProtocolMCP == "horos-mcp-v1"
ALPNProtocolH3 == "h3"
MagicBytesMCP == <<"M", "C", "P", "1">>

\* the connections: two, so that one can be served while the other arrives,
\* stalls or fails
Conns == {1, 2}

\* the calls of Server.Start, in the order they take the lock
StartCalls == 1..MaxStarts

\* the sub-directories of the dictionary directory, in the order os.ReadDir
\* lists them, and the goroutines calling the read methods of the registry
DirNames == {"a", "b"}
Readers == {1, 2}
ALPNs == {ALPNProtocolH3, ALPNProtocolMCP, "ftp"}
\* first bytes a client may put on its stream: the magic, a wrong magic
\* and a proper prefix of the magic
Hellos == {MagicBytesMCP, <<"X", "X", "X", "X">>, <<"M", "C", "P">>}
\* what a line turns out to be when it is read: a request (answered), a
\* notification (HandleMessage returns nil), a request whose response cannot
\* be marshalled, and the empty line
Kinds == {"req", "notif", "badresp", "blank"}
\* what a pushed notification turns out to be when it is marshalled
NotifKinds == {"notif", "badnotif"}
\* values of "quic_" + randomHex(4), two of them so that identities can
\* collide
SessionIDs == {"quic_00000000", "quic_00000001"}

VARIABLES
    mcpHandler,   \* s.mcpHandler # nil (Config.MCPServer was given)
    mu,           \* s.mu: "free" or the method holding it
    tcpServer,    \* s.tcpServer: "nil", "open" (set), "closed" (Shutdown called)
    quicLn,       \* s.quicLn:    "nil", "open", "closed"
    h3Server,     \* s.h3Server:  "nil", "open", "closed"
    ctxDone,      \* the context given to Start is cancelled
    startPc,      \* Start: "idle", "locked", "select", "returned"
    startRet,     \* what Start returned: "none", "nil", or an error
    tcpPc,        \* TCP goroutine: "none", "listen", "serve", "done"
    quicPc,       \* accept-loop goroutine: "none", "accept", "done"
    errCh,        \* errCh, a sequence of at most ErrChCap errors
    stopPc,       \* Stop: "idle", "locked"
    stopCalls,    \* Stop calls that have returned
    stopRet,      \* what the last Stop returned
    stopTried,    \* the shutdown steps the last Stop called
    stopSaw,      \* the three handles as the last Stop found them
    stopOut,      \* what the three steps of the last Stop returned
    cstate,       \* per connection: "new", "queued", "accepted"
    alpn,         \* per connection: negotiated ALPN
    acceptQ,      \* handshaken connections the listener has not yet handed out
    wire,         \* per connection: close/reset frames the server sent, in order
    pc,           \* per connection: position of its handler goroutine
    magicRes,     \* per connection: what ValidateMagicBytes returned
    hello,        \* per connection: the bytes ValidateMagicBytes was given
    opened,       \* per connection: the client opened its stream
    inq,          \* per connection: lines sent and not yet read (their numbers)
    sent,         \* per connection: number of lines the client has sent
    dispatched,   \* per connection: messages given to HandleMessage, in order
    pending,      \* per connection: marshalled response not yet written
    out,          \* per connection: lines written to the stream, in order
    endedBy,      \* per connection: what ended the read loop
    sessions,     \* the RPC server's session table: records [id, conn]
    sid,          \* per connection: sessionID
    regCount,     \* per connection: successful RegisterSession calls
    unregCount,   \* per connection: UnregisterSession calls
    notifQ,       \* per connection: sess.notifications
    npc,          \* per connection: writeNotifications goroutine position
    nbuf,         \* per connection: notification being written
    pushed        \* notifications pushed so far

(* ------------------- state of the other parts ------------------------ *)
VARIABLES
    tlsHeap,      \* the tls.Config objects: reference -> NextProtos
    tlsCfg,       \* s.tlsCfg: a reference
    tlsOrig,      \* NextProtos of s.tlsCfg when New returned
    tcpTLS,       \* Start's tcpTLS: a reference, 0 before line 132
    quicTLS,      \* the configuration given to quic.ListenAddr, 0 before
    tlsPc,        \* Start, lines 132-170: "new", "cloned", "restricted", "quic", "tcp"
    tcpOffer,     \* ALPN list of the last TCP client hello
    tcpNeg,       \* protocol negotiated by the last TCP handshake
    quicOffer,    \* ALPN list of the last QUIC client hello
    quicNeg       \* protocol negotiated by the last QUIC handshake

VARIABLES
    chOuter,      \* Chain: the argument outer
    chOthers,     \* Chain: the variadic argument others
    chEp,         \* the endpoint Chain(outer, others...) returned for the endpoint
    chTrace,      \* what one call of that endpoint executed, in order
    chPc          \* "idle", "args", "built", "called"

VARIABLES
    mgInput,      \* what the reader held when ValidateMagicBytes was called
    mgEnd,        \* what the reader does after its bytes: "open" (more may come), "eof", "err"
    mgReader,     \* the bytes still in the reader
    mgRead,       \* the bytes ValidateMagicBytes took from the reader
    mgRes,        \* the error returned, as its chain of wrapped errors; << >> is nil
    mgPc          \* "idle", "called", "returned"

VARIABLES
    hAddr,        \* s.addr, as its characters
    hAltSvc,      \* altSvcMiddleware: the value computed at line 116
    hPc,          \* "idle", "new", "wired", "serving", "failed"
    hResp         \* the last response sent: transport, status, header map

VARIABLES
    rDicts,       \* r.dicts: dictionary ID -> *Dictionary
    stripBuf,     \* stripAccents: the buffer between its NFD and Remove links
    clPc,         \* each caller's place in Classify: "idle", "loop", "matched", "nfd", "strip", "returned"
    clTerm,       \* Classify: the argument term of each caller
    clOpts,       \* Classify: the argument opts of each caller
    clI,          \* Classify: the index into ids of the loop at line 100
    clFor,        \* which call of the normalizer is running: "lookup", "term", "fallback"
    clRes         \* Classify: result

VARIABLES
    bRoute,       \* the transport of the request: "none", "http", "mcp"
    bBody,        \* HTTP: the decoded JSON body, or ok = FALSE for a body that does not decode
    bArg,         \* MCP: the "terms" argument, as its characters
    bReq,         \* classifyBatchReq.Terms as the decoder built it
    bClassified,  \* the terms handed to reg.Classify, in call order
    bResp,        \* the answer: kind "none", "results" or "error"
    bPc           \* "idle", "decoded", "done"

VARIABLES
    dlPc,         \* "idle", "loop" (line 23), "backoff" (the select of line 26), "request" (line 33), "returned"
    dlUrlOk,      \* whether http.NewRequestWithContext accepts the url
    dlAttempt,    \* the loop variable attempt
    dlOutcomes,   \* what each client.Do so far led to, in order
    dlCtxDone,    \* ctx is cancelled
    dlWoken,      \* which case completed the select: "none", "ctx", "timer"
    dlRet         \* what downloadFile returned: "none" before it returns

VARIABLES
    sdbRows,      \* the table import_sources: adapter_id -> row
    sdbNow,       \* time.Now().Unix()
    sdbSet,       \* the url last given to a successful SetURL, per adapter
    sdbOp         \* the last call: its name and whether it returned nil

VARIABLES
    lcMu,         \* s.mu: "free", "Start" or "Stop"
    lcTcpServer,  \* s.tcpServer: 0 is nil, k the http.Server made by the k-th Start
    lcQuicLn,     \* s.quicLn: 0 is nil, k the listener opened by the k-th Start
    lcH3Server,   \* s.h3Server: 0 is nil, k the http3.Server made by the k-th Start
    lcStartPc,    \* each Start call: "idle", "locked" (line 127), "tcpSet" (line 135), "started", "failed"
    lcTcpPc,      \* the TCP goroutine of each Start: "none", "listen" (line 170), "read" (line 176), "serve", "done"
    lcServing,    \* the http.Server each TCP goroutine read from s.tcpServer at line 176
    lcTcpBound,   \* the TCP goroutines whose listener holds the TCP port
    lcLnOpen,     \* the QUIC listeners that are open
    lcShut,       \* the sub-servers Stop has shut down or closed
    lcStopPc,     \* Stop: "idle", "locked"
    lcStops       \* the Stop calls that returned

VARIABLES
    rlDisk,       \* the dictionary directories on disk: name -> what LoadDictionary finds
    rlReadable,   \* whether os.ReadDir of the directory succeeds
    rlDicts,      \* r.dicts: dictionary ID -> number of entries
    rlLoadPc,     \* Load: "idle", "loop" (line 34), "swap" (line 49)
    rlEntries,    \* Load: the entries of ReadDir not yet visited
    rlNew,        \* Load: newDicts
    rlLoadRet,    \* what the last Load returned: "none", "nil", "err"
    rlReaders,    \* the callers holding r.mu.RLock()
    rdPc,         \* each reader: "idle", "locked" (between RLock and RUnlock)
    rdOp,         \* the method each reader is in
    rdSeen        \* what each read of r.dicts in the running call saw, in order

chassisVars == <<mcpHandler, mu, tcpServer, quicLn, h3Server, ctxDone, startPc,
                 startRet, tcpPc, quicPc, errCh, stopPc, stopCalls, stopRet,
                 stopTried, stopSaw, stopOut>>
acceptVars == <<cstate, alpn, acceptQ, wire, pc>>
connVars == <<cstate, alpn, acceptQ>>
clientVars == <<opened, inq, sent>>
loopVars == <<hello, magicRes, dispatched, pending, out, endedBy>>
sessVars == <<sessions, sid, regCount, unregCount>>
notifVars == <<notifQ, npc, nbuf, pushed>>
srvVars == <<chassisVars, acceptVars, clientVars, loopVars, sessVars, notifVars>>
tlsVars == <<tlsHeap, tlsCfg, tlsOrig, tcpTLS, quicTLS, tlsPc, tcpOffer,
             tcpNeg, quicOffer, quicNeg>>
chainVars == <<chOuter, chOthers, chEp, chTrace, chPc>>
magicVars == <<mgInput, mgEnd, mgReader, mgRead, mgRes, mgPc>>
hdrVars == <<hAddr, hAltSvc, hPc, hResp>>
regVars == <<rDicts, stripBuf, clPc, clTerm, clOpts, clI, clFor, clRes>>
batchVars == <<bRoute, bBody, bArg, bReq, bClassified, bResp, bPc>>
dlVars == <<dlPc, dlUrlOk, dlAttempt, dlOutcomes, dlCtxDone, dlWoken, dlRet>>
sdbVars == <<sdbRows, sdbNow, sdbSet, sdbOp>>
lcVars == <<lcMu, lcTcpServer, lcQuicLn, lcH3Server, lcStartPc, lcTcpPc,
            lcServing, lcTcpBound, lcLnOpen, lcShut, lcStopPc, lcStops>>
rlVars == <<rlDisk, rlReadable, rlDicts, rlLoadPc, rlEntries, rlNew,
            rlLoadRet, rlReaders, rdPc, rdOp, rdSeen>>
libVars == <<tlsVars, chainVars, magicVars, hdrVars, regVars, batchVars,
             dlVars, sdbVars, lcVars, rlVars>>
\* everything but tlsVars
not_tls == <<srvVars, chainVars, magicVars, hdrVars, regVars, batchVars,
             dlVars, sdbVars, lcVars, rlVars>>
\* everything but chainVars
not_chain == <<srvVars, tlsVars, magicVars, hdrVars, regVars, batchVars,
               dlVars, sdbVars, lcVars, rlVars>>
\* everything but magicVars
not_magic == <<srvVars, tlsVars, chainVars, hdrVars, regVars, batchVars,
               dlVars, sdbVars, lcVars, rlVars>>
\* everything but hdrVars
not_hdr == <<srvVars, tlsVars, chainVars, magicVars, regVars, batchVars,
             dlVars, sdbVars, lcVars, rlVars>>
\* everything but regVars
not_reg == <<srvVars, tlsVars, chainVars, magicVars, hdrVars, batchVars,
             dlVars, sdbVars, lcVars, rlVars>>
\* everything but batchVars
not_batch == <<srvVars, tlsVars, chainVars, magicVars, hdrVars, regVars,
               dlVars, sdbVars, lcVars, rlVars>>
\* everything but dlVars
not_dl == <<srvVars, tlsVars, chainVars, magicVars, hdrVars, regVars,
            batchVars, sdbVars, lcVars, rlVars>>
\* everything but sdbVars
not_sdb == <<srvVars, tlsVars, chainVars, magicVars, hdrVars, regVars,
             batchVars, dlVars, lcVars, rlVars>>
\* everything but lcVars
not_lc == <<srvVars, tlsVars, chainVars, magicVars, hdrVars, regVars,
            batchVars, dlVars, sdbVars, rlVars>>
\* everything but rlVars
not_rl == <<srvVars, tlsVars, chainVars, magicVars, hdrVars, regVars,
            batchVars, dlVars, sdbVars, lcVars>>
vars == <<srvVars, libVars>>

NoMsg == [type |-> "none", conn |-> 0, seq |-> 0]
NoRet == [step |-> "none", kind |-> "none"]

\* New, lines 58-95: the chassis before Start
SrvInit ==
    /\ mcpHandler \in BOOLEAN
    /\ mu = "free"
    /\ tcpServer = "nil" /\ quicLn = "nil" /\ h3Server = "nil"
    /\ ctxDone = FALSE
    /\ startPc = "idle" /\ startRet = "none"
    /\ tcpPc = "none" /\ quicPc = "none"
    /\ errCh = <<>>
    /\ stopPc = "idle" /\ stopCalls = 0 /\ stopRet = NoRet /\ stopTried = {}
    /\ stopSaw = <<"nil", "nil", "nil">> /\ stopOut = <<"skip", "skip", "skip">>
    /\ cstate = [c \in Conns |-> "new"]
    /\ alpn = [c \in Conns |-> "none"]
    /\ acceptQ = <<>>
    /\ wire = [c \in Conns |-> <<>>]
    /\ pc = [c \in Conns |-> "none"]
    /\ hello = [c \in Conns |-> <<>>]
    /\ opened = [c \in Conns |-> FALSE]
    /\ inq = [c \in Conns |-> <<>>]
    /\ sent = [c \in Conns |-> 0]
    /\ magicRes = [c \in Conns |-> "none"]
    /\ dispatched = [c \in Conns |-> <<>>]
    /\ pending = [c \in Conns |-> NoMsg]
    /\ out = [c \in Conns |-> <<>>]
    /\ endedBy = [c \in Conns |-> "none"]
    /\ sessions = {}
    /\ sid = [c \in Conns |-> "none"]
    /\ regCount = [c \in Conns |-> 0]
    /\ unregCount = [c \in Conns |-> 0]
    /\ notifQ = [c \in Conns |-> <<>>]
    /\ npc = [c \in Conns |-> "none"]
    /\ nbuf = [c \in Conns |-> NoMsg]
    /\ pushed = 0

(* ------------------- initial state of the parts --------------------- *)
\* the TLS part before New: nothing allocated
TLSIdle ==
    /\ tlsHeap = << >>
    /\ tlsCfg = 0
    /\ tlsOrig = << >>
    /\ tcpTLS = 0
    /\ quicTLS = 0
    /\ tlsPc = "idle"
    /\ tcpOffer = {}
    /\ tcpNeg = "none"
    /\ quicOffer = {}
    /\ quicNeg = "none"

\* kit.Chain: nothing composed
ChainIdle ==
    /\ chOuter = "none"
    /\ chOthers = << >>
    /\ chEp = << >>
    /\ chTrace = << >>
    /\ chPc = "idle"

\* ValidateMagicBytes on a reader: not called
MagicIdle ==
    /\ mgInput = << >>
    /\ mgEnd = "open"
    /\ mgReader = << >>
    /\ mgRead = << >>
    /\ mgRes = << >>
    /\ mgPc = "idle"

\* the HTTP side: no handler wired
HdrIdle ==
    /\ hAddr = << >>
    /\ hAltSvc = << >>
    /\ hPc = "idle"
    /\ hResp = [transport |-> "none", status |-> 0, header |-> << >>]

\* dict.Registry: no dictionary loaded, no Classify running
RegIdle ==
    /\ rDicts = << >>
    /\ stripBuf = << >>
    /\ clPc = [g \in {1, 2} |-> "idle"]
    /\ clTerm = [g \in {1, 2} |-> << >>]
    /\ clOpts = [g \in {1, 2} |-> [ptr |-> "nil", Jurisdictions |-> {}, Types |-> {}, Dicts |-> {}]]
    /\ clI = [g \in {1, 2} |-> 0]
    /\ clFor = [g \in {1, 2} |-> "none"]
    /\ clRes = [g \in {1, 2} |-> [Term |-> << >>, Normalized |-> << >>, Matches |-> << >>]]

\* batch classification: no request
BatchIdle ==
    /\ bRoute = "none"
    /\ bBody = [ok |-> FALSE, terms |-> << >>]
    /\ bArg = << >>
    /\ bReq = << >>
    /\ bClassified = << >>
    /\ bResp = [kind |-> "none", results |-> << >>]
    /\ bPc = "idle"

\* downloadFile: not called
DlIdle ==
    /\ dlPc = "idle"
    /\ dlUrlOk = TRUE
    /\ dlAttempt = 0
    /\ dlOutcomes = << >>
    /\ dlCtxDone = FALSE
    /\ dlWoken = "none"
    /\ dlRet = "none"

\* SourceDB: the table import_sources is empty
SdbIdle ==
    /\ sdbRows = << >>
    /\ sdbNow = 0
    /\ sdbSet = << >>
    /\ sdbOp = [name |-> "none", ok |-> TRUE]

\* the chassis handles: Start and Stop not called
LcIdle ==
    /\ lcMu = "free"
    /\ lcTcpServer = 0
    /\ lcQuicLn = 0
    /\ lcH3Server = 0
    /\ lcStartPc = [k \in StartCalls |-> "idle"]
    /\ lcTcpPc = [k \in StartCalls |-> "none"]
    /\ lcServing = [k \in StartCalls |-> 0]
    /\ lcTcpBound = {}
    /\ lcLnOpen = {}
    /\ lcShut = {}
    /\ lcStopPc = "idle"
    /\ lcStops = 0

\* Registry reload: NewRegistry returned, nothing loaded, the directory empty
RlIdle ==
    /\ rlDisk = [n \in DirNames |-> [st |-> "none", n |-> 0]]
    /\ rlReadable = TRUE
    /\ rlDicts = << >>
    /\ rlLoadPc = "idle"
    /\ rlEntries = << >>
    /\ rlNew = << >>
    /\ rlLoadRet = "none"
    /\ rlReaders = {}
    /\ rdPc = [g \in Readers |-> "idle"]
    /\ rdOp = [g \in Readers |-> "none"]
    /\ rdSeen = [g \in Readers |-> << >>]

\* every part but x is where it starts
LibIdleBut(x) ==
    /\ IF x = "tls" THEN TRUE ELSE TLSIdle
    /\ IF x = "chain" THEN TRUE ELSE ChainIdle
    /\ IF x = "magic" THEN TRUE ELSE MagicIdle
    /\ IF x = "hdr" THEN TRUE ELSE HdrIdle
    /\ IF x = "reg" THEN TRUE ELSE RegIdle
    /\ IF x = "batch" THEN TRUE ELSE BatchIdle
    /\ IF x = "dl" THEN TRUE ELSE DlIdle
    /\ IF x = "sdb" THEN TRUE ELSE SdbIdle
    /\ IF x = "lc" THEN TRUE ELSE LcIdle
    /\ IF x = "rl" THEN TRUE ELSE RlIdle

Init == SrvInit /\ LibIdleBut("none")


(* ===================== chassis: Server.Start ========================== *)

NilErr == [step |-> "none", kind |-> "nil"]
Err(step, kind) == [step |-> step, kind |-> kind]

\* Start, line 127: s.mu.Lock()
StartLock ==
    /\ startPc = "idle"
    /\ mu = "free"
    /\ mu' = "Start"
    /\ startPc' = "locked"
    /\ UNCHANGED <<mcpHandler, tcpServer, quicLn, h3Server, ctxDone, startRet,
                   tcpPc, quicPc, errCh, stopPc, stopCalls, stopRet, stopTried,
                   stopSaw, stopOut>>
    /\ UNCHANGED <<acceptVars, clientVars, loopVars, sessVars, notifVars>>
    /\ UNCHANGED libVars

\* Start, lines 129-153: s.tcpServer is set, then quic.ListenAddr fails:
\* unlock and return the error; s.quicLn and s.h3Server stay nil
StartListenFail ==
    /\ startPc = "locked"
    /\ tcpServer' = "open"
    /\ mu' = "free"
    /\ startPc' = "returned"
    /\ startRet' = "QUIC listen"
    /\ UNCHANGED <<mcpHandler, quicLn, h3Server, ctxDone, tcpPc, quicPc, errCh,
                   stopPc, stopCalls, stopRet, stopTried,
                   stopSaw, stopOut>>
    /\ UNCHANGED <<acceptVars, clientVars, loopVars, sessVars, notifVars>>
    /\ UNCHANGED libVars

\* Start, lines 129-212: the handles are set under the lock, the lock is
\* released, errCh is made and the two goroutines are started
StartListenOk ==
    /\ startPc = "locked"
    /\ tcpServer' = "open"
    /\ quicLn' = "open"
    /\ h3Server' = "open"
    /\ mu' = "free"
    /\ errCh' = <<>>
    /\ tcpPc' = "listen"
    /\ quicPc' = "accept"
    /\ startPc' = "select"
    /\ UNCHANGED <<mcpHandler, ctxDone, startRet, stopPc, stopCalls, stopRet,
                   stopTried, stopSaw, stopOut>>
    /\ UNCHANGED <<acceptVars, clientVars, loopVars, sessVars, notifVars>>
    /\ UNCHANGED libVars

\* Start, lines 214-219: select { <-ctx.Done(): return nil; err := <-errCh: return err }
StartSelectCtx ==
    /\ startPc = "select"
    /\ ctxDone
    /\ startPc' = "returned"
    /\ startRet' = "nil"
    /\ UNCHANGED <<mcpHandler, mu, tcpServer, quicLn, h3Server, ctxDone, tcpPc,
                   quicPc, errCh, stopPc, stopCalls, stopRet, stopTried,
                   stopSaw, stopOut>>
    /\ UNCHANGED <<acceptVars, clientVars, loopVars, sessVars, notifVars>>
    /\ UNCHANGED libVars

StartSelectErr ==
    /\ startPc = "select"
    /\ errCh # <<>>
    /\ startPc' = "returned"
    /\ startRet' = Head(errCh)
    /\ errCh' = Tail(errCh)
    /\ UNCHANGED <<mcpHandler, mu, tcpServer, quicLn, h3Server, ctxDone, tcpPc,
                   quicPc, stopPc, stopCalls, stopRet, stopTried,
                   stopSaw, stopOut>>
    /\ UNCHANGED <<acceptVars, clientVars, loopVars, sessVars, notifVars>>
    /\ UNCHANGED libVars

(* --------------------- TCP goroutine, lines 169-179 ------------------- *)

\* tls.Listen fails: errCh <- "TCP listen: ..."; return
TcpListenFail ==
    /\ tcpPc = "listen"
    /\ Len(errCh) < ErrChCap
    /\ errCh' = Append(errCh, "TCP listen")
    /\ tcpPc' = "done"
    /\ UNCHANGED <<mcpHandler, mu, tcpServer, quicLn, h3Server, ctxDone, startPc,
                   startRet, quicPc, stopPc, stopCalls, stopRet, stopTried,
                   stopSaw, stopOut>>
    /\ UNCHANGED <<acceptVars, clientVars, loopVars, sessVars, notifVars>>
    /\ UNCHANGED libVars

\* tls.Listen succeeds: s.tcpServer.Serve(tcpLn) is entered
TcpListenOk ==
    /\ tcpPc = "listen"
    /\ tcpPc' = "serve"
    /\ UNCHANGED <<mcpHandler, mu, tcpServer, quicLn, h3Server, ctxDone, startPc,
                   startRet, quicPc, errCh, stopPc, stopCalls, stopRet, stopTried,
                   stopSaw, stopOut>>
    /\ UNCHANGED <<acceptVars, clientVars, loopVars, sessVars, notifVars>>
    /\ UNCHANGED libVars

\* Serve returns http.ErrServerClosed once Shutdown was called: nothing is sent
TcpServeClosed ==
    /\ tcpPc = "serve"
    /\ tcpServer = "closed"
    /\ tcpPc' = "done"
    /\ UNCHANGED <<mcpHandler, mu, tcpServer, quicLn, h3Server, ctxDone, startPc,
                   startRet, quicPc, errCh, stopPc, stopCalls, stopRet, stopTried,
                   stopSaw, stopOut>>
    /\ UNCHANGED <<acceptVars, clientVars, loopVars, sessVars, notifVars>>
    /\ UNCHANGED libVars

\* Serve returns another error (the listener failed): errCh <- "TCP: ..."
TcpServeFail ==
    /\ tcpPc = "serve"
    /\ tcpServer = "open"
    /\ Len(errCh) < ErrChCap
    /\ errCh' = Append(errCh, "TCP")
    /\ tcpPc' = "done"
    /\ UNCHANGED <<mcpHandler, mu, tcpServer, quicLn, h3Server, ctxDone, startPc,
                   startRet, quicPc, stopPc, stopCalls, stopRet, stopTried,
                   stopSaw, stopOut>>
    /\ UNCHANGED <<acceptVars, clientVars, loopVars, sessVars, notifVars>>
    /\ UNCHANGED libVars

(* ------------------- the context given to Start ----------------------- *)

CtxCancel ==
    /\ ~ctxDone
    /\ ctxDone' = TRUE
    /\ UNCHANGED <<mcpHandler, mu, tcpServer, quicLn, h3Server, startPc, startRet,
                   tcpPc, quicPc, errCh, stopPc, stopCalls, stopRet, stopTried,
                   stopSaw, stopOut>>
    /\ UNCHANGED <<acceptVars, clientVars, loopVars, sessVars, notifVars>>
    /\ UNCHANGED libVars


(* ====================== chassis: Server.Stop ========================== *)

\* What Shutdown/Close of a sub-server may return (library boundary): a
\* handle that is nil is not called; a serving sub-server closes cleanly or
\* with an error; one already closed returns nil or an "already closed" error.
StepOutcomes(h) ==
    IF h = "nil" THEN {"skip"}
    ELSE IF h = "open" THEN {"nil", "err"}
    ELSE {"nil", "closed"}

\* Stop, lines 230, 235, 240: the steps whose handle is not nil are called
StopCalled(t, q, h) ==
    (IF t # "nil" THEN {"tcp"} ELSE {})
        \cup (IF q # "nil" THEN {"quic"} ELSE {})
        \cup (IF h # "nil" THEN {"h3"} ELSE {})

\* Stop, lines 229-244: firstErr keeps the first non-nil error
StopFirstErr(e1, e2, e3) ==
    LET f0 == NilErr
        f1 == IF e1 \notin {"skip", "nil"} /\ f0 = NilErr THEN Err("tcp", e1) ELSE f0
        f2 == IF e2 \notin {"skip", "nil"} /\ f1 = NilErr THEN Err("quic", e2) ELSE f1
        f3 == IF e3 \notin {"skip", "nil"} /\ f2 = NilErr THEN Err("h3", e3) ELSE f2
    IN f3

\* a handle after its Shutdown/Close was called
Closed(h) == IF h = "nil" THEN "nil" ELSE "closed"

\* Stop, line 224: s.mu.Lock()
StopLock ==
    /\ stopPc = "idle"
    /\ stopCalls < MaxStops
    /\ mu = "free"
    /\ mu' = "Stop"
    /\ stopPc' = "locked"
    /\ UNCHANGED <<mcpHandler, tcpServer, quicLn, h3Server, ctxDone, startPc,
                   startRet, tcpPc, quicPc, errCh, stopCalls, stopRet, stopTried,
                   stopSaw, stopOut>>
    /\ UNCHANGED <<acceptVars, clientVars, loopVars, sessVars, notifVars>>
    /\ UNCHANGED libVars

\* Stop returning at the first error: the later steps are not called
StopRunEarlyReturn(t, q, h, e1, e2, e3) ==
    IF e1 \notin {"skip", "nil"}
    THEN [tried |-> StopCalled(t, "nil", "nil"), ret |-> Err("tcp", e1)]
    ELSE IF e2 \notin {"skip", "nil"}
    THEN [tried |-> StopCalled(t, q, "nil"), ret |-> Err("quic", e2)]
    ELSE [tried |-> StopCalled(t, q, h), ret |-> StopFirstErr(e1, e2, e3)]

\* Stop, lines 229-247: the steps called and the error returned
StopRun(t, q, h, e1, e2, e3) ==
    [tried |-> StopCalled(t, q, h), ret |-> StopFirstErr(e1, e2, e3)]

\* Stop without the deferred s.mu.Unlock()
StopBodyNoUnlock ==
    /\ stopPc = "locked"
    /\ \E e1 \in StepOutcomes(tcpServer), e2 \in StepOutcomes(quicLn),
          e3 \in StepOutcomes(h3Server) :
          LET r == StopRun(tcpServer, quicLn, h3Server, e1, e2, e3) IN
          /\ stopTried' = r.tried
          /\ stopRet' = r.ret
          /\ stopOut' = <<e1, e2, e3>>
    /\ stopSaw' = <<tcpServer, quicLn, h3Server>>
    /\ tcpServer' = (IF "tcp" \in stopTried' THEN Closed(tcpServer) ELSE tcpServer)
    /\ quicLn' = (IF "quic" \in stopTried' THEN Closed(quicLn) ELSE quicLn)
    /\ h3Server' = (IF "h3" \in stopTried' THEN Closed(h3Server) ELSE h3Server)
    /\ stopPc' = "idle"
    /\ stopCalls' = stopCalls + 1
    /\ UNCHANGED <<mcpHandler, mu, ctxDone, startPc, startRet, tcpPc, quicPc, errCh>>
    /\ UNCHANGED <<acceptVars, clientVars, loopVars, sessVars, notifVars>>
    /\ UNCHANGED libVars

\* Stop, lines 225-247: the three steps, then the deferred s.mu.Unlock()
StopBody ==
    /\ stopPc = "locked"
    /\ \E e1 \in StepOutcomes(tcpServer), e2 \in StepOutcomes(quicLn),
          e3 \in StepOutcomes(h3Server) :
          LET r == StopRun(tcpServer, quicLn, h3Server, e1, e2, e3) IN
          /\ stopTried' = r.tried
          /\ stopRet' = r.ret
          /\ stopOut' = <<e1, e2, e3>>
    /\ stopSaw' = <<tcpServer, quicLn, h3Server>>
    /\ tcpServer' = (IF "tcp" \in stopTried' THEN Closed(tcpServer) ELSE tcpServer)
    /\ quicLn' = (IF "quic" \in stopTried' THEN Closed(quicLn) ELSE quicLn)
    /\ h3Server' = (IF "h3" \in stopTried' THEN Closed(h3Server) ELSE h3Server)
    /\ mu' = "free"
    /\ stopPc' = "idle"
    /\ stopCalls' = stopCalls + 1
    /\ UNCHANGED <<mcpHandler, ctxDone, startPc, startRet, tcpPc, quicPc, errCh>>
    /\ UNCHANGED <<acceptVars, clientVars, loopVars, sessVars, notifVars>>
    /\ UNCHANGED libVars


(* ============ chassis: QUIC accept loop, lines 182-212 ================ *)

Frame(op, code) == [op |-> op, code |-> code]

\* a client completes the TLS handshake with ALPN a; the listener queues the
\* connection for Accept (connections arrive in index order)
ClientConnect(c, a) ==
    /\ cstate[c] = "new"
    /\ \A d \in Conns : d < c => cstate[d] # "new"
    /\ quicLn = "open"
    /\ cstate' = [cstate EXCEPT ![c] = "queued"]
    /\ alpn' = [alpn EXCEPT ![c] = a]
    /\ acceptQ' = Append(acceptQ, c)
    /\ UNCHANGED <<wire, pc>>
    /\ UNCHANGED <<chassisVars, clientVars, loopVars, sessVars, notifVars>>
    /\ UNCHANGED libVars

\* Demux without the nil check of line 202: the handler goroutine is started
\* whether or not an RPC server was configured
DemuxNoNilCheck(c) ==
    CASE alpn[c] = ALPNProtocolH3 ->
            /\ pc' = [pc EXCEPT ![c] = "h3"]
            /\ UNCHANGED wire
      [] alpn[c] = ALPNProtocolMCP ->
            /\ pc' = [pc EXCEPT ![c] = "acceptStream"]
            /\ UNCHANGED wire
      [] OTHER ->
            /\ wire' = [wire EXCEPT ![c] =
                           Append(@, Frame("CloseWithError", CodeUnknownALPN))]
            /\ UNCHANGED pc

\* lines 193-210: switch alpn. The handler goroutine started for c (pc'[c])
\* and the close frame sent on c (wire'[c])
Demux(c) ==
    CASE alpn[c] = ALPNProtocolH3 ->
            /\ pc' = [pc EXCEPT ![c] = "h3"]
            /\ UNCHANGED wire
      [] alpn[c] = ALPNProtocolMCP ->
            IF mcpHandler
            THEN /\ pc' = [pc EXCEPT ![c] = "acceptStream"]
                 /\ UNCHANGED wire
            ELSE /\ wire' = [wire EXCEPT ![c] =
                                Append(@, Frame("CloseWithError", CodeMCPNotEnabled))]
                 /\ UNCHANGED pc
      [] OTHER ->
            /\ wire' = [wire EXCEPT ![c] =
                           Append(@, Frame("CloseWithError", CodeUnknownALPN))]
            /\ UNCHANGED pc

\* the accept loop serving each connection inline instead of in a goroutine
\* of its own: Accept is called again only once the handler has returned
AcceptConnInline ==
    /\ quicPc = "accept"
    /\ acceptQ # <<>>
    /\ \A d \in Conns : pc[d] \in {"none", "done"}
    /\ LET c == Head(acceptQ) IN
          /\ cstate' = [cstate EXCEPT ![c] = "accepted"]
          /\ Demux(c)
    /\ acceptQ' = Tail(acceptQ)
    /\ UNCHANGED alpn
    /\ UNCHANGED <<chassisVars, clientVars, loopVars, sessVars, notifVars>>
    /\ UNCHANGED libVars

\* lines 184, 193-210: Accept returns the next queued connection, which is
\* routed by its ALPN
AcceptConn ==
    /\ quicPc = "accept"
    /\ acceptQ # <<>>
    /\ LET c == Head(acceptQ) IN
          /\ cstate' = [cstate EXCEPT ![c] = "accepted"]
          /\ Demux(c)
    /\ acceptQ' = Tail(acceptQ)
    /\ UNCHANGED alpn
    /\ UNCHANGED <<chassisVars, clientVars, loopVars, sessVars, notifVars>>
    /\ UNCHANGED libVars

\* lines 185-188: Accept fails and ctx.Err() # nil: the goroutine returns
AcceptExitCtx ==
    /\ quicPc = "accept"
    /\ ctxDone
    /\ quicPc' = "done"
    /\ UNCHANGED <<mcpHandler, mu, tcpServer, quicLn, h3Server, ctxDone, startPc,
                   startRet, tcpPc, errCh, stopPc, stopCalls, stopRet, stopTried,
                   stopSaw, stopOut>>
    /\ UNCHANGED <<acceptVars, clientVars, loopVars, sessVars, notifVars>>
    /\ UNCHANGED libVars

\* the accept goroutine sending the error of Accept and going on with the
\* loop instead of returning
AcceptErrContinue ==
    /\ quicPc = "accept"
    /\ quicLn = "closed"
    /\ ~ctxDone
    /\ Len(errCh) < ErrChCap
    /\ errCh' = Append(errCh, "QUIC accept")
    /\ UNCHANGED <<mcpHandler, mu, tcpServer, quicLn, h3Server, ctxDone, startPc,
                   startRet, tcpPc, quicPc, stopPc, stopCalls, stopRet, stopTried,
                   stopSaw, stopOut>>
    /\ UNCHANGED <<acceptVars, clientVars, loopVars, sessVars, notifVars>>
    /\ UNCHANGED libVars

\* lines 185-190: Accept fails (the listener was closed) and the context is
\* live: errCh <- "QUIC accept: ..."; return
AcceptExitErr ==
    /\ quicPc = "accept"
    /\ quicLn = "closed"
    /\ ~ctxDone
    /\ Len(errCh) < ErrChCap
    /\ errCh' = Append(errCh, "QUIC accept")
    /\ quicPc' = "done"
    /\ UNCHANGED <<mcpHandler, mu, tcpServer, quicLn, h3Server, ctxDone, startPc,
                   startRet, tcpPc, stopPc, stopCalls, stopRet, stopTried,
                   stopSaw, stopOut>>
    /\ UNCHANGED <<acceptVars, clientVars, loopVars, sessVars, notifVars>>
    /\ UNCHANGED libVars

\* lines 196-200: s.h3Server.ServeQUICConn(conn) returns (the connection
\* ended or the HTTP/3 server was closed)
H3Done(c) ==
    /\ pc[c] = "h3"
    /\ pc' = [pc EXCEPT ![c] = "done"]
    /\ UNCHANGED <<cstate, alpn, acceptQ, wire>>
    /\ UNCHANGED <<chassisVars, clientVars, loopVars, sessVars, notifVars>>
    /\ UNCHANGED libVars


(* ============================ the clients ============================= *)

\* the client opens its stream
ClientOpen(c) ==
    /\ cstate[c] # "new"
    /\ alpn[c] # ALPNProtocolH3
    /\ ~opened[c]
    /\ wire[c] = <<>>
    /\ opened' = [opened EXCEPT ![c] = TRUE]
    /\ UNCHANGED <<inq, sent>>
    /\ UNCHANGED <<chassisVars, acceptVars, loopVars, sessVars, notifVars>>
    /\ UNCHANGED libVars

\* lines sent so far by all clients
TotalSent == sent[1] + sent[2]

\* the client writes one more line after its first bytes
ClientSend(c) ==
    /\ opened[c]
    /\ TotalSent < MaxLines
    /\ sent' = [sent EXCEPT ![c] = @ + 1]
    /\ inq' = [inq EXCEPT ![c] = Append(@, sent[c] + 1)]
    /\ UNCHANGED opened
    /\ UNCHANGED <<chassisVars, acceptVars, loopVars, sessVars, notifVars>>
    /\ UNCHANGED libVars

(* ============ mcpquic: Handler.ServeConn, server.go 44-113 ============ *)

\* ValidateMagicBytes ignoring the error of io.ReadFull: a short read is
\* compared like a full one and reported as invalid magic bytes
ValidateMagicBytesNoReadCheck(buf, ended) ==
    IF Len(buf) >= MagicLen
    THEN IF SubSeq(buf, 1, MagicLen) = MagicBytesMCP THEN "nil" ELSE "invalid"
    ELSE IF ended THEN "invalid" ELSE "block"

\* ValidateMagicBytes comparing only the bytes that were read: a short read
\* that is a prefix of the magic passes
ValidateMagicBytesPrefix(buf, ended) ==
    IF Len(buf) >= MagicLen
    THEN IF SubSeq(buf, 1, MagicLen) = MagicBytesMCP THEN "nil" ELSE "invalid"
    ELSE IF ~ended THEN "block"
    ELSE IF buf = SubSeq(MagicBytesMCP, 1, Len(buf)) THEN "nil" ELSE "io"

\* magic.go 11-20. buf: the bytes the stream delivers; ended: the stream
\* ends after them. "block": io.ReadFull is still waiting.
ValidateMagicBytes(buf, ended) ==
    IF Len(buf) >= MagicLen
    THEN IF SubSeq(buf, 1, MagicLen) = MagicBytesMCP THEN "nil" ELSE "invalid"
    ELSE IF ended THEN "io" ELSE "block"

\* server.go 48, 55: AcceptStream returns the stream the client opened
SC_AcceptStream(c) ==
    /\ pc[c] = "acceptStream"
    /\ opened[c]
    /\ pc' = [pc EXCEPT ![c] = "magic"]
    /\ UNCHANGED <<cstate, alpn, acceptQ, wire>>
    /\ UNCHANGED <<chassisVars, clientVars, loopVars, sessVars, notifVars>>
    /\ UNCHANGED libVars

\* server.go 48-53: AcceptStream fails (context cancelled, connection lost)
SC_AcceptStreamFail(c) ==
    /\ pc[c] = "acceptStream"
    /\ wire' = [wire EXCEPT ![c] =
                   Append(@, Frame("CloseWithError", ConnErrorProtocolViolation))]
    /\ pc' = [pc EXCEPT ![c] = "done"]
    /\ UNCHANGED <<cstate, alpn, acceptQ>>
    /\ UNCHANGED <<chassisVars, clientVars, loopVars, sessVars, notifVars>>
    /\ UNCHANGED libVars

\* server.go 57-59: the frames sent when ValidateMagicBytes fails
MagicFailFrames ==
    << Frame("CancelWrite", StreamErrorProtocolConfusion),
       Frame("CancelRead", StreamErrorProtocolConfusion),
       Frame("CloseWithError", ConnErrorProtocolViolation) >>

\* server.go 55-63: ValidateMagicBytes(stream) returns. h: the first bytes
\* the stream delivers, ended: the stream ends after them (the client closed
\* it, or the read failed)
SC_Magic(c, h, ended) ==
    /\ pc[c] = "magic"
    /\ LET r == ValidateMagicBytes(h, ended) IN
          /\ r # "block"
          /\ hello' = [hello EXCEPT ![c] = h]
          /\ magicRes' = [magicRes EXCEPT ![c] = r]
          /\ IF r = "nil"
             THEN /\ pc' = [pc EXCEPT ![c] = "register"]
                  /\ UNCHANGED wire
             ELSE /\ wire' = [wire EXCEPT ![c] = @ \o MagicFailFrames]
                  /\ pc' = [pc EXCEPT ![c] = "done"]
    /\ UNCHANGED <<cstate, alpn, acceptQ>>
    /\ UNCHANGED <<dispatched, pending, out, endedBy>>
    /\ UNCHANGED <<chassisVars, clientVars, sessVars, notifVars>>
    /\ UNCHANGED libVars

\* the RPC server's RegisterSession: an identity already in the table is
\* refused, otherwise the session is stored
RegisterSession(tbl, id, c) ==
    IF \E s \in tbl : s.id = id
    THEN [ok |-> FALSE, tbl |-> tbl]
    ELSE [ok |-> TRUE, tbl |-> tbl \cup {[id |-> id, conn |-> c]}]

\* the RPC server's UnregisterSession: the entry of that identity is deleted
UnregisterSession(tbl, id) == {s \in tbl : s.id # id}

\* server.go 63: the identities randomHex may return next. The random values
\* are interchangeable, so the first value drawn is called quic_00000000: a
\* draw repeats an identity drawn before or takes the next new one
Drawable ==
    LET drawn == {sid[d] : d \in Conns} \ {"none"} IN
    IF drawn = {} THEN {"quic_00000000"} ELSE SessionIDs

\* ServeConn with the deferred UnregisterSession placed before the
\* registration: a refused registration unregisters the identity on return
SC_RegisterDeferFirst(c, id) ==
    /\ pc[c] = "register"
    /\ id \in Drawable
    /\ sid' = [sid EXCEPT ![c] = id]
    /\ LET r == RegisterSession(sessions, id, c) IN
          IF r.ok
          THEN /\ sessions' = r.tbl
               /\ regCount' = [regCount EXCEPT ![c] = @ + 1]
               /\ npc' = [npc EXCEPT ![c] = "select"]
               /\ pc' = [pc EXCEPT ![c] = "read"]
               /\ UNCHANGED <<wire, unregCount>>
          ELSE /\ wire' = [wire EXCEPT ![c] = Append(@, Frame("StreamClose", StreamErrorNoError))]
               /\ pc' = [pc EXCEPT ![c] = "done"]
               /\ sessions' = UnregisterSession(sessions, id)
               /\ unregCount' = [unregCount EXCEPT ![c] = @ + 1]
               /\ UNCHANGED <<regCount, npc>>
    /\ UNCHANGED <<cstate, alpn, acceptQ, notifQ, nbuf, pushed>>
    /\ UNCHANGED <<chassisVars, clientVars, loopVars>>
    /\ UNCHANGED libVars

\* server.go 63-77: the session identity is drawn, the session registered;
\* on success the notification goroutine is started and the loop entered,
\* on failure the stream is closed (a FIN, no code) and ServeConn returns
SC_Register(c, id) ==
    /\ pc[c] = "register"
    /\ id \in Drawable
    /\ sid' = [sid EXCEPT ![c] = id]
    /\ LET r == RegisterSession(sessions, id, c) IN
          IF r.ok
          THEN /\ sessions' = r.tbl
               /\ regCount' = [regCount EXCEPT ![c] = @ + 1]
               /\ npc' = [npc EXCEPT ![c] = "select"]
               /\ pc' = [pc EXCEPT ![c] = "read"]
               /\ UNCHANGED wire
          ELSE /\ wire' = [wire EXCEPT ![c] = Append(@, Frame("StreamClose", StreamErrorNoError))]
               /\ pc' = [pc EXCEPT ![c] = "done"]
               /\ UNCHANGED <<sessions, regCount, npc>>
    /\ UNCHANGED <<cstate, alpn, acceptQ, unregCount, notifQ, nbuf, pushed>>
    /\ UNCHANGED <<chassisVars, clientVars, loopVars>>
    /\ UNCHANGED libVars


(* ------------------ the read loop, server.go 79-112 ------------------- *)

\* the RPC server's HandleMessage: nil for a notification, otherwise the
\* response to that message
HandleMessage(m) ==
    IF m.type = "notif" THEN NoMsg
    ELSE [type |-> (IF m.type = "req" THEN "resp" ELSE "unmarshalable"),
          conn |-> m.conn, seq |-> m.seq]

\* json.Marshal of a response or notification fails
MarshalFails(r) == r.type \in {"unmarshalable", "badnotif"}

\* replies written through one writer shared by all handlers
ReplyStreamShared(c) == 1

\* server.go 106: the stream a reply to a line read on c is written to
ReplyStream(c) == c

\* LoopExit with UnregisterSession at the end of the loop body instead of
\* deferred: the break on a write error skips it
LoopExitKeepsSession(c, why) ==
    /\ sessions' = (IF why = "writeerr" THEN sessions
                    ELSE UnregisterSession(sessions, sid[c]))
    /\ unregCount' = [unregCount EXCEPT ![c] = IF why = "writeerr" THEN @ ELSE @ + 1]
    /\ endedBy' = [endedBy EXCEPT ![c] = why]
    /\ pc' = [pc EXCEPT ![c] = "done"]

\* server.go 72, 86, 108, 112: break, then the deferred UnregisterSession
LoopExit(c, why) ==
    /\ sessions' = UnregisterSession(sessions, sid[c])
    /\ unregCount' = [unregCount EXCEPT ![c] = @ + 1]
    /\ endedBy' = [endedBy EXCEPT ![c] = why]
    /\ pc' = [pc EXCEPT ![c] = "done"]

\* SC_ReadLine without the length check of line 90: an empty line is given to
\* HandleMessage like any other and its error response is written
SC_ReadLineNoLengthCheck(c, k) ==
    /\ pc[c] = "read"
    /\ inq[c] # <<>>
    /\ LET line == [type |-> k, conn |-> c, seq |-> Head(inq[c])]
           resp == IF k = "blank" THEN [type |-> "resp", conn |-> c, seq |-> line.seq]
                   ELSE HandleMessage(line)
       IN
          /\ dispatched' = [dispatched EXCEPT ![c] = Append(@, line)]
          /\ IF resp = NoMsg \/ MarshalFails(resp)
             THEN UNCHANGED <<pending, pc>>
             ELSE /\ pending' = [pending EXCEPT ![c] = resp]
                  /\ pc' = [pc EXCEPT ![c] = "write"]
    /\ inq' = [inq EXCEPT ![c] = Tail(@)]
    /\ UNCHANGED <<cstate, alpn, acceptQ, wire, hello, magicRes, out, endedBy>>
    /\ UNCHANGED <<opened, sent>>
    /\ UNCHANGED <<chassisVars, sessVars, notifVars>>
    /\ UNCHANGED libVars

\* server.go 81-103: one line is read (k: what it contains); an empty line,
\* a nil response and a response that cannot be marshalled go back to reading
SC_ReadLine(c, k) ==
    /\ pc[c] = "read"
    /\ inq[c] # <<>>
    /\ LET line == [type |-> k, conn |-> c, seq |-> Head(inq[c])]
           resp == HandleMessage(line)
       IN
          IF line.type = "blank"
          THEN UNCHANGED <<dispatched, pending, pc>>
          ELSE /\ dispatched' = [dispatched EXCEPT ![c] = Append(@, line)]
               /\ IF resp = NoMsg \/ MarshalFails(resp)
                  THEN UNCHANGED <<pending, pc>>
                  ELSE /\ pending' = [pending EXCEPT ![c] = resp]
                       /\ pc' = [pc EXCEPT ![c] = "write"]
    /\ inq' = [inq EXCEPT ![c] = Tail(@)]
    /\ UNCHANGED <<cstate, alpn, acceptQ, wire, hello, magicRes, out, endedBy>>
    /\ UNCHANGED <<opened, sent>>
    /\ UNCHANGED <<chassisVars, sessVars, notifVars>>
    /\ UNCHANGED libVars

\* server.go 81-87: ReadBytes returns io.EOF (every line was read and the
\* client closed the stream) or another read error
SC_ReadEnd(c, why) ==
    /\ pc[c] = "read"
    /\ why = "eof" => inq[c] = <<>>
    /\ LoopExit(c, why)
    /\ UNCHANGED <<cstate, alpn, acceptQ, wire, hello, magicRes, dispatched, pending, out>>
    /\ UNCHANGED <<sid, regCount>>
    /\ UNCHANGED <<chassisVars, clientVars, notifVars>>
    /\ UNCHANGED libVars

\* SC_WriteOk with replies written by detached goroutines: a reply can
\* overtake the one before it
SC_WriteOutOfOrder(c) ==
    /\ pc[c] = "write"
    /\ out' = [out EXCEPT ![ReplyStream(c)] = <<pending[c]>> \o @]
    /\ pending' = [pending EXCEPT ![c] = NoMsg]
    /\ pc' = [pc EXCEPT ![c] = "read"]
    /\ UNCHANGED <<cstate, alpn, acceptQ, wire, hello, magicRes, dispatched, endedBy>>
    /\ UNCHANGED <<chassisVars, clientVars, sessVars, notifVars>>
    /\ UNCHANGED libVars

\* server.go 105-106: the reply is written, newline-terminated
SC_WriteOk(c) ==
    /\ pc[c] = "write"
    /\ out' = [out EXCEPT ![ReplyStream(c)] = Append(@, pending[c])]
    /\ pending' = [pending EXCEPT ![c] = NoMsg]
    /\ pc' = [pc EXCEPT ![c] = "read"]
    /\ UNCHANGED <<cstate, alpn, acceptQ, wire, hello, magicRes, dispatched, endedBy>>
    /\ UNCHANGED <<chassisVars, clientVars, sessVars, notifVars>>
    /\ UNCHANGED libVars

\* server.go 106-109: stream.Write fails: break
SC_WriteErr(c) ==
    /\ pc[c] = "write"
    /\ pending' = [pending EXCEPT ![c] = NoMsg]
    /\ LoopExit(c, "writeerr")
    /\ UNCHANGED <<cstate, alpn, acceptQ, wire, hello, magicRes, dispatched, out>>
    /\ UNCHANGED <<sid, regCount>>
    /\ UNCHANGED <<chassisVars, clientVars, notifVars>>
    /\ UNCHANGED libVars

(* ------- session.writeNotifications, server.go 189-205 ---------------- *)

\* the RPC server sends a notification on the channel of a registered
\* session, the limit-th at most
SendNotification(c, limit) ==
    /\ [id |-> sid[c], conn |-> c] \in sessions
    /\ pushed < limit
    /\ Len(notifQ[c]) < NotifCap
    /\ pushed' = pushed + 1
    /\ notifQ' = [notifQ EXCEPT ![c] = Append(@, pushed + 1)]
    /\ UNCHANGED <<npc, nbuf>>
    /\ UNCHANGED <<chassisVars, acceptVars, clientVars, loopVars, sessVars>>
    /\ UNCHANGED libVars

\* the RPC server pushes a notification to a registered session
Notify(c) == SendNotification(c, MaxNotifs)

\* the RPC server pushes a burst of notifications to one session
NotifyBurst(c) == SendNotification(c, MaxQueued)

\* writeNotifications returning at a marshal failure instead of going on
\* with the next notification
N_TakeReturnOnError(c, k) ==
    /\ npc[c] = "select"
    /\ notifQ[c] # <<>>
    /\ notifQ' = [notifQ EXCEPT ![c] = Tail(@)]
    /\ LET n == [type |-> k, conn |-> c, seq |-> Head(notifQ[c])] IN
          IF MarshalFails(n)
          THEN /\ npc' = [npc EXCEPT ![c] = "done"]
               /\ UNCHANGED nbuf
          ELSE /\ nbuf' = [nbuf EXCEPT ![c] = n]
               /\ npc' = [npc EXCEPT ![c] = "locked"]
    /\ UNCHANGED pushed
    /\ UNCHANGED <<chassisVars, acceptVars, clientVars, loopVars, sessVars>>
    /\ UNCHANGED libVars

\* server.go 192-198: a notification is received and marshalled (k: what it
\* contains); on a marshal failure it is dropped, otherwise s.mu is locked
N_Take(c, k) ==
    /\ npc[c] = "select"
    /\ notifQ[c] # <<>>
    /\ notifQ' = [notifQ EXCEPT ![c] = Tail(@)]
    /\ LET n == [type |-> k, conn |-> c, seq |-> Head(notifQ[c])] IN
          IF MarshalFails(n)
          THEN UNCHANGED <<npc, nbuf>>
          ELSE /\ nbuf' = [nbuf EXCEPT ![c] = n]
               /\ npc' = [npc EXCEPT ![c] = "locked"]
    /\ UNCHANGED pushed
    /\ UNCHANGED <<chassisVars, acceptVars, clientVars, loopVars, sessVars>>
    /\ UNCHANGED libVars

\* server.go 199-200: w.Write (its error is ignored), then s.mu.Unlock()
N_Write(c, ok) ==
    /\ npc[c] = "locked"
    /\ out' = [out EXCEPT ![c] = IF ok THEN Append(@, nbuf[c]) ELSE @]
    /\ nbuf' = [nbuf EXCEPT ![c] = NoMsg]
    /\ npc' = [npc EXCEPT ![c] = "select"]
    /\ UNCHANGED <<notifQ, pushed>>
    /\ UNCHANGED <<hello, magicRes, dispatched, pending, endedBy>>
    /\ UNCHANGED <<chassisVars, acceptVars, clientVars, sessVars>>
    /\ UNCHANGED libVars

\* server.go 201-202: <-ctx.Done(): return
N_Done(c) ==
    /\ npc[c] = "select"
    /\ ctxDone
    /\ npc' = [npc EXCEPT ![c] = "done"]
    /\ UNCHANGED <<notifQ, nbuf, pushed>>
    /\ UNCHANGED <<chassisVars, acceptVars, clientVars, loopVars, sessVars>>
    /\ UNCHANGED libVars

(* ========================= specification ============================== *)

\* a step of the handler of connection c or of its client; the lines read
\* are of the kinds ks, the notifications marshalled of the kinds nks
ConnStep(c, ks, nks) ==
    \/ \E a \in ALPNs : ClientConnect(c, a)
    \/ H3Done(c)
    \/ ClientOpen(c)
    \/ ClientSend(c)
    \/ SC_AcceptStream(c) \/ SC_AcceptStreamFail(c)
    \/ \E h \in Hellos, ended \in BOOLEAN : SC_Magic(c, h, ended)
    \/ \E id \in SessionIDs : SC_Register(c, id)
    \/ \E k \in ks : SC_ReadLine(c, k)
    \/ \E why \in {"eof", "readerr"} : SC_ReadEnd(c, why)
    \/ SC_WriteOk(c) \/ SC_WriteErr(c)
    \/ Notify(c)
    \/ \E k \in nks : N_Take(c, k)
    \/ \E ok \in BOOLEAN : N_Write(c, ok)
    \/ N_Done(c)

\* The QUIC side of the chassis serving one connection, with every kind of
\* line and notification
Next ==
    \/ StartLock \/ StartListenFail \/ StartListenOk
    \/ CtxCancel
    \/ AcceptConn \/ AcceptExitCtx
    \/ ConnStep(1, Kinds, NotifKinds)

Spec == Init /\ [][Next]_vars

\* The QUIC side of the chassis serving two connections at once, every line
\* a request
NextPair ==
    \/ StartLock \/ StartListenFail \/ StartListenOk
    \/ CtxCancel
    \/ AcceptConn \/ AcceptExitCtx
    \/ \E c \in Conns : ConnStep(c, {"req"}, {"notif"})

SpecPair == Init /\ [][NextPair]_vars

\* One session and a burst of notifications: the client sends no line
NextNotif ==
    \/ StartLock \/ StartListenFail \/ StartListenOk
    \/ CtxCancel
    \/ AcceptConn \/ AcceptExitCtx
    \/ ClientConnect(1, ALPNProtocolMCP)
    \/ ClientOpen(1)
    \/ SC_AcceptStream(1) \/ SC_AcceptStreamFail(1)
    \/ \E h \in Hellos, ended \in BOOLEAN : SC_Magic(1, h, ended)
    \/ \E id \in SessionIDs : SC_Register(1, id)
    \/ \E why \in {"eof", "readerr"} : SC_ReadEnd(1, why)
    \/ NotifyBurst(1)
    \/ \E k \in NotifKinds : N_Take(1, k)
    \/ \E ok \in BOOLEAN : N_Write(1, ok)
    \/ N_Done(1)

SpecNotif == Init /\ [][NextNotif]_vars

\* The whole chassis: Start, its two goroutines, Stop, and the connections
\* up to the point where a handler goroutine is started for them
NextChassis ==
    \/ StartLock \/ StartListenFail \/ StartListenOk
    \/ StartSelectCtx \/ StartSelectErr
    \/ TcpListenFail \/ TcpListenOk \/ TcpServeClosed \/ TcpServeFail
    \/ CtxCancel
    \/ StopLock \/ StopBody
    \/ AcceptConn \/ AcceptExitCtx \/ AcceptExitErr
    \/ \E c \in Conns :
          \/ \E a \in ALPNs : ClientConnect(c, a)
          \/ H3Done(c)

SpecChassis == Init /\ [][NextChassis]_vars

\* The chassis and one connection with no Stop: what the goroutines do by
\* themselves once the context is cancelled
NextCancel ==
    \/ StartLock \/ StartListenFail \/ StartListenOk
    \/ StartSelectCtx \/ StartSelectErr
    \/ TcpListenFail \/ TcpListenOk \/ TcpServeFail
    \/ CtxCancel
    \/ AcceptConn \/ AcceptExitCtx
    \/ ConnStep(1, {"req"}, {"notif"})

\* every step a goroutine takes without waiting for a peer is taken: the
\* selects on ctx.Done(), Accept(ctx) and AcceptStream(ctx) return once the
\* context is cancelled, a registration and a write return
CancelFairness ==
    /\ WF_vars(StartLock \/ StartListenFail \/ StartListenOk)
    /\ WF_vars(StartSelectCtx \/ StartSelectErr)
    /\ WF_vars(TcpListenFail \/ TcpListenOk)
    /\ WF_vars(AcceptExitCtx)
    /\ WF_vars(ctxDone /\ SC_AcceptStreamFail(1))
    /\ WF_vars(\E id \in SessionIDs : SC_Register(1, id))
    /\ WF_vars(SC_WriteOk(1) \/ SC_WriteErr(1))
    /\ WF_vars(\E ok \in BOOLEAN : N_Write(1, ok))
    /\ WF_vars(N_Done(1))

SpecCancel == Init /\ [][NextCancel]_vars /\ CancelFairness

(* =========== chassis: the TLS configurations Start builds ============= *)

\* tls.go 72, 85: NextProtos of the configurations tls.go builds
DefaultNextProtos == <<ALPNProtocolH3, ALPNProtocolMCP>>

\* part_010 133: NextProtos of the TCP configuration
TCPNextProtos == <<"h2", "http/1.1">>

\* NextProtos New can end with: those of tls.go, or those of a Config.TLS
\* the caller supplied
TLSConfigs ==
    { DefaultNextProtos,
      <<ALPNProtocolMCP, ALPNProtocolH3>>,
      <<ALPNProtocolH3>>,
      <<ALPNProtocolH3, ALPNProtocolMCP, "h2">> }

\* ALPN lists a client hello may carry
ClientOffers == SUBSET {"h2", "http/1.1", ALPNProtocolH3, ALPNProtocolMCP}

\* tcpTLS := s.tlsCfg, without Clone: the same object under a second name
CloneAlias(heap, r) == [heap |-> heap, ref |-> r]

\* part_010 132: (*tls.Config).Clone, a new object with the same fields
Clone(heap, r) == [heap |-> Append(heap, heap[r]), ref |-> Len(heap) + 1]

\* crypto/tls: the first protocol of the server's list that the client
\* offers; "none" when there is none
NegotiateALPN(server, offer) ==
    LET idx == {i \in 1..Len(server) : server[i] \in offer} IN
    IF idx = {} THEN "none"
    ELSE server[CHOOSE i \in idx : \A j \in idx : i <= j]

\* New, lines 63-85: s.tlsCfg is Config.TLS or what tls.go builds
InitTLS ==
    /\ SrvInit /\ mcpHandler
    /\ LibIdleBut("tls")
    /\ \E cfg \in TLSConfigs :
          /\ tlsHeap = <<cfg>>
          /\ tlsOrig = cfg
    /\ tlsCfg = 1
    /\ tcpTLS = 0 /\ quicTLS = 0 /\ tlsPc = "new"
    /\ tcpOffer = {} /\ tcpNeg = "none" /\ quicOffer = {} /\ quicNeg = "none"

\* part_010 132: tcpTLS := s.tlsCfg.Clone()
Start_CloneTLS ==
    /\ tlsPc = "new"
    /\ LET r == Clone(tlsHeap, tlsCfg) IN
          /\ tlsHeap' = r.heap
          /\ tcpTLS' = r.ref
    /\ tlsPc' = "cloned"
    /\ UNCHANGED <<tlsCfg, tlsOrig, quicTLS, tcpOffer, tcpNeg, quicOffer, quicNeg>>
    /\ UNCHANGED not_tls

\* part_010 133: tcpTLS.NextProtos = []string{"h2", "http/1.1"}
Start_RestrictTCP ==
    /\ tlsPc = "cloned"
    /\ tlsHeap' = [tlsHeap EXCEPT ![tcpTLS] = TCPNextProtos]
    /\ tlsPc' = "restricted"
    /\ UNCHANGED <<tlsCfg, tlsOrig, tcpTLS, quicTLS, tcpOffer, tcpNeg, quicOffer, quicNeg>>
    /\ UNCHANGED not_tls

\* part_010 149-154: quic.ListenAddr(s.addr, s.tlsCfg, qCfg)
Start_QuicListen ==
    /\ tlsPc = "restricted"
    /\ quicTLS' = tlsCfg
    /\ tlsPc' = "quic"
    /\ UNCHANGED <<tlsHeap, tlsCfg, tlsOrig, tcpTLS, tcpOffer, tcpNeg, quicOffer, quicNeg>>
    /\ UNCHANGED not_tls

\* part_010 170: tls.Listen("tcp", s.addr, tcpTLS)
Start_TcpListen ==
    /\ tlsPc = "quic"
    /\ tlsPc' = "tcp"
    /\ UNCHANGED <<tlsHeap, tlsCfg, tlsOrig, tcpTLS, quicTLS, tcpOffer, tcpNeg,
                   quicOffer, quicNeg>>
    /\ UNCHANGED not_tls

\* a TLS handshake on the TCP listener
TcpHandshake(offer) ==
    /\ tlsPc = "tcp"
    /\ tcpOffer' = offer
    /\ tcpNeg' = NegotiateALPN(tlsHeap[tcpTLS], offer)
    /\ UNCHANGED <<tlsHeap, tlsCfg, tlsOrig, tcpTLS, quicTLS, tlsPc, quicOffer, quicNeg>>
    /\ UNCHANGED not_tls

\* a handshake on the QUIC listener
QuicHandshake(offer) ==
    /\ tlsPc \in {"quic", "tcp"}
    /\ quicOffer' = offer
    /\ quicNeg' = NegotiateALPN(tlsHeap[quicTLS], offer)
    /\ UNCHANGED <<tlsHeap, tlsCfg, tlsOrig, tcpTLS, quicTLS, tlsPc, tcpOffer, tcpNeg>>
    /\ UNCHANGED not_tls

NextTLS ==
    \/ Start_CloneTLS \/ Start_RestrictTCP \/ Start_QuicListen \/ Start_TcpListen
    \/ \E offer \in ClientOffers : TcpHandshake(offer)
    \/ \E offer \in ClientOffers : QuicHandshake(offer)

SpecTLS == InitTLS /\ [][NextTLS]_vars

(* ============================ kit.Chain =============================== *)

\* middlewares: a name, and whether the middleware calls the endpoint it
\* wraps (an audit or tracing middleware) or answers by itself
Middlewares == [name : {"a", "b", "c"}, calls : BOOLEAN]

RECURSIVE SeqsUpTo(_, _)
\* the sequences over S of length at most n
SeqsUpTo(S, n) ==
    IF n = 0 THEN {<< >>}
    ELSE LET shorter == SeqsUpTo(S, n - 1) IN
         shorter \cup {Append(q, x) : q \in {r \in shorter : Len(r) = n - 1}, x \in S}

\* an Endpoint, as what one call of it executes
Endpoint == <<[mw |-> "endpoint", ev |-> "call"]>>

\* m(next): the endpoint a middleware makes of the endpoint next
Apply(m, next) ==
    IF m.calls
    THEN <<[mw |-> m.name, ev |-> "pre"]>> \o next \o <<[mw |-> m.name, ev |-> "post"]>>
    ELSE <<[mw |-> m.name, ev |-> "pre"], [mw |-> m.name, ev |-> "post"]>>

RECURSIVE ChainLoopForward(_, _, _)
\* the loop of Chain running from the first of others to the last
ChainLoopForward(others, i, next) ==
    IF i < 1 THEN next
    ELSE ChainLoopForward(Tail(others), i - 1, Apply(Head(others), next))

RECURSIVE ChainLoop(_, _, _)
\* checker_test.go 173-175: for i := len(others) - 1; i >= 0; i-- { next = others[i](next) }
ChainLoop(others, i, next) ==
    IF i < 1 THEN next
    ELSE ChainLoop(others, i - 1, Apply(others[i], next))

\* checker_test.go 171-178: Chain(outer, others...)(next)
Chain(outer, others, next) == Apply(outer, ChainLoop(others, Len(others), next))

InitChain ==
    /\ SrvInit /\ mcpHandler
    /\ LibIdleBut("chain")
    /\ chOuter \in Middlewares
    /\ chOthers \in SeqsUpTo(Middlewares, MaxChain)
    /\ chEp = << >> /\ chTrace = << >> /\ chPc = "args"

\* Chain(outer, others...) is applied to the endpoint
Chain_Build ==
    /\ chPc = "args"
    /\ chEp' = Chain(chOuter, chOthers, Endpoint)
    /\ chPc' = "built"
    /\ UNCHANGED <<chOuter, chOthers, chTrace>>
    /\ UNCHANGED not_chain

\* the composed endpoint is called once
Chain_Call ==
    /\ chPc = "built"
    /\ chTrace' = chEp
    /\ chPc' = "called"
    /\ UNCHANGED <<chOuter, chOthers, chEp>>
    /\ UNCHANGED not_chain

NextChain == Chain_Build \/ Chain_Call

SpecChain == InitChain /\ [][NextChain]_vars

(* =================== ValidateMagicBytes on a reader ==================== *)

\* the bytes a reader may deliver
Bytes == {"M", "C", "P", "1", "X"}

\* magic.go 12-13: the bytes io.ReadFull(r, magic) takes from the reader
MagicConsumed(buf) ==
    SubSeq(buf, 1, IF Len(buf) < MagicLen THEN Len(buf) ELSE MagicLen)

\* magic.go 14, 17, 19: the error returned, as the chain errors.Is follows.
\* r: the outcome, n: the number of bytes read, end: how the reader ended
MagicError(r, n, end) ==
    CASE r = "nil" -> << >>
      [] r = "invalid" -> <<"fmt.Errorf", "ErrInvalidMagicBytes">>
      [] OTHER -> <<"fmt.Errorf",
                    IF end = "err" THEN "read error"
                    ELSE IF n = 0 THEN "io.EOF" ELSE "io.ErrUnexpectedEOF">>

\* errors.Is(err, target)
ErrorsIs(err, target) == \E i \in 1..Len(err) : err[i] = target

InitMagic ==
    /\ SrvInit /\ mcpHandler
    /\ LibIdleBut("magic")
    /\ mgInput \in SeqsUpTo(Bytes, MaxRead)
    /\ mgEnd \in {"open", "eof", "err"}
    /\ mgReader = mgInput
    /\ mgRead = << >> /\ mgRes = << >> /\ mgPc = "called"

\* magic.go 11-20: ValidateMagicBytes(r) returns
Magic_Return ==
    /\ mgPc = "called"
    /\ LET r == ValidateMagicBytes(mgReader, mgEnd # "open")
           taken == MagicConsumed(mgReader)
       IN /\ r # "block"
          /\ mgRead' = taken
          /\ mgReader' = SubSeq(mgReader, Len(taken) + 1, Len(mgReader))
          /\ mgRes' = MagicError(r, Len(taken), mgEnd)
    /\ mgPc' = "returned"
    /\ UNCHANGED <<mgInput, mgEnd>>
    /\ UNCHANGED not_magic

NextMagic == Magic_Return

SpecMagic == InitMagic /\ [][NextMagic]_vars

(* ============ chassis: securityHeaders and altSvcMiddleware =========== *)

\* characters of a listen address: a letter, the colon, two digits
AddrChars == {"h", ":", "8", "0"}
Digits == {"8", "0"}

\* part_010 100-104: the headers securityHeaders sets, in order
SecurityHeaders ==
    << <<"X-Content-Type-Options", "nosniff">>,
       <<"X-Frame-Options", "DENY">>,
       <<"Referrer-Policy", "strict-origin-when-cross-origin">>,
       <<"Content-Security-Policy",
         "default-src 'self'; script-src 'self'; style-src 'self' 'unsafe-inline'; img-src 'self' data:; frame-ancestors 'none'">>,
       <<"Permissions-Policy", "camera=(), microphone=(), geolocation=()">> >>

\* http.Header.Set and http.Header.Del on a header map
HeaderSet(h, n, v) == [x \in DOMAIN h \cup {n} |-> IF x = n THEN v ELSE h[x]]
HeaderDel(h, n) == [x \in DOMAIN h \ {n} |-> h[x]]

\* the largest index of a colon in addr, 0 when there is none
LastColon(addr) ==
    LET idx == {i \in 1..Len(addr) : addr[i] = ":"} IN
    IF idx = {} THEN 0 ELSE CHOOSE i \in idx : \A j \in idx : j <= i

\* net.SplitHostPort on an address without brackets: the text after the
\* last colon is the port; no colon, or a colon in the host, is an error
\* and both results are empty
SplitHostPort(addr) ==
    LET i == LastColon(addr) IN
    IF i = 0 THEN [ok |-> FALSE, host |-> << >>, port |-> << >>]
    ELSE IF \E j \in 1..(i - 1) : addr[j] = ":"
    THEN [ok |-> FALSE, host |-> << >>, port |-> << >>]
    ELSE [ok |-> TRUE, host |-> SubSeq(addr, 1, i - 1),
          port |-> SubSeq(addr, i + 1, Len(addr))]

\* part_010 112-116: the Alt-Svc value for the address
AltSvcValue(addr) ==
    LET p == SplitHostPort(addr).port
        port == IF p = << >> THEN <<"8", "0", "8", "0">> ELSE p
    IN <<"h3=", "\"", ":">> \o port \o <<"\"", "; ma=86400">>

\* the listeners can bind the address: it parses, and its port is a number
\* or empty (then the system chooses the port)
CanListen(addr) ==
    LET r == SplitHostPort(addr) IN
    r.ok /\ \A i \in 1..Len(r.port) : r.port[i] \in Digits

\* what the handler given in Config.Handler does with a request: the
\* repository's router (a JSON answer, the 204 of a CORS preflight, the 404
\* of the mux), a handler that returns without writing, and handlers that
\* set or delete a header themselves
InnerKinds == {"json", "preflight", "notfound", "silent", "ownCSP", "delFrame"}

\* the header map and status when the inner handler has answered
Inner(h, kind) ==
    LET c1 == HeaderSet(h, "Access-Control-Allow-Origin", "*")
        c2 == HeaderSet(c1, "Access-Control-Allow-Methods", "GET, POST, OPTIONS")
        c3 == HeaderSet(c2, "Access-Control-Allow-Headers", "Content-Type")
    IN CASE kind = "json" ->
              [status |-> 200,
               header |-> HeaderSet(c3, "Content-Type", "application/json; charset=utf-8")]
         [] kind = "preflight" -> [status |-> 204, header |-> c3]
         [] kind = "notfound" ->
              [status |-> 404,
               header |-> HeaderSet(c3, "Content-Type", "text/plain; charset=utf-8")]
         [] kind = "silent" -> [status |-> 200, header |-> h]
         [] kind = "ownCSP" ->
              [status |-> 200,
               header |-> HeaderSet(h, "Content-Security-Policy", "default-src *")]
         [] OTHER -> [status |-> 200, header |-> HeaderDel(h, "X-Frame-Options")]

RECURSIVE SetAll(_, _)
\* the header map after Set of each pair of hs, in order
SetAll(h, hs) ==
    IF hs = << >> THEN h
    ELSE SetAll(HeaderSet(h, Head(hs)[1], Head(hs)[2]), Tail(hs))

\* part_010 98-107, 118-121, 129: securityHeaders(altSvcMiddleware(addr, next))
\* serving one request on an empty header map
ServeHTTP(h, altSvc, kind) ==
    Inner(HeaderSet(SetAll(h, SecurityHeaders), "Alt-Svc", altSvc), kind)

InitHdr ==
    /\ SrvInit /\ mcpHandler
    /\ LibIdleBut("hdr")
    /\ hAddr \in SeqsUpTo(AddrChars, MaxAddr)
    /\ hAltSvc = << >>
    /\ hPc = "new"
    /\ hResp = [transport |-> "none", status |-> 0, header |-> << >>]

\* part_010 129: handler := securityHeaders(altSvcMiddleware(s.addr, s.httpHandler))
Hdr_Wire ==
    /\ hPc = "new"
    /\ hAltSvc' = AltSvcValue(hAddr)
    /\ hPc' = "wired"
    /\ UNCHANGED <<hAddr, hResp>>
    /\ UNCHANGED not_hdr

\* part_010 149, 170: both listeners bind
Hdr_Listen ==
    /\ hPc = "wired"
    /\ CanListen(hAddr)
    /\ hPc' = "serving"
    /\ UNCHANGED <<hAddr, hAltSvc, hResp>>
    /\ UNCHANGED not_hdr

\* part_010 150-153, 171-173: a listener does not bind, Start returns the error
Hdr_ListenFail ==
    /\ hPc = "wired"
    /\ hPc' = "failed"
    /\ UNCHANGED <<hAddr, hAltSvc, hResp>>
    /\ UNCHANGED not_hdr

\* part_010 137, 157: a request is served by handler, on TCP or on HTTP/3
Hdr_Serve(transport, kind) ==
    /\ hPc = "serving"
    /\ LET r == ServeHTTP(<< >>, hAltSvc, kind) IN
          hResp' = [transport |-> transport, status |-> r.status, header |-> r.header]
    /\ UNCHANGED <<hAddr, hAltSvc, hPc>>
    /\ UNCHANGED not_hdr

NextHdr ==
    \/ Hdr_Wire \/ Hdr_Listen \/ Hdr_ListenFail
    \/ \E t \in {"tcp", "h3"}, k \in InnerKinds : Hdr_Serve(t, k)

SpecHdr == InitHdr /\ [][NextHdr]_vars

(* ===================== dict.Registry.Classify ========================== *)
(* Registry.Classify (registry.go 84-138) over a loaded dictionary set,    *)
(* with the normalizers of normalize.go.  A term is a sequence of          *)
(* characters; "e'" is the letter e with an acute accent as one rune and   *)
(* "'" is the combining acute accent that NFD splits it into.              *)

\* the goroutines that call Classify (HTTP and MCP requests are served each
\* in its own goroutine and take only the read lock, registry.go 85)
Callers == {1, 2}

\* the terms callers pass
Terms == {<< >>, <<"E">>, <<"e'">>, <<"x">>}

\* the dictionary IDs, in the order of sort.Strings (registry.go 98)
DictIDs == <<"firstnames-uk", "noms-fr">>

\* strings.ToLower on one character
ToLowerChar(c) == IF c = "E" THEN "e" ELSE c

\* strings.ToLower
ToLower(s) == [i \in 1..Len(s) |-> ToLowerChar(s[i])]

\* norm.NFD: an accented letter becomes the letter and its combining mark
RECURSIVE NFD(_)
NFD(s) ==
    IF s = << >> THEN << >>
    ELSE (IF Head(s) = "e'" THEN <<"e", "'">> ELSE <<Head(s)>>) \o NFD(Tail(s))

\* runes.Remove(runes.In(unicode.Mn)): the combining marks are dropped
RemoveMn(s) == SelectSeq(s, LAMBDA c : c # "'")

\* norm.NFC: a letter followed by its combining mark becomes one rune
RECURSIVE NFC(_)
NFC(s) ==
    IF Len(s) < 2 THEN s
    ELSE IF Head(s) = "e" /\ s[2] = "'" THEN <<"e'">> \o NFC(Tail(Tail(s)))
    ELSE <<Head(s)>> \o NFC(Tail(s))

\* NormalizeLowercaseASCII when no other goroutine is inside stripAccents
NormalizeLowercaseASCII(s) == NFC(RemoveMn(NFD(ToLower(s))))

\* NormalizeLowercaseUTF8
NormalizeLowercaseUTF8(s) == ToLower(s)

\* GetNormalizer(mode) applied to s
Normalize(mode, s) ==
    CASE mode = "lowercase_utf8" -> NormalizeLowercaseUTF8(s)
      [] mode = "none" -> s
      [] OTHER -> NormalizeLowercaseASCII(s)

\* the dictionaries a directory can hold under one ID: lookup dictionaries
\* whose keys were normalized at load time and, for noms-fr, a pattern
\* dictionary; the ID fixes the entity type
Dictionaries(id) ==
    { [ID |-> id, Jurisdiction |-> j,
       EntityType |-> IF id = "noms-fr" THEN "surname" ELSE "first_name",
       normalize |-> m,
       Entries |-> IF m = "none" THEN {<<"E">>} ELSE {<<"e">>},
       Method |-> "lookup", patterns |-> {}] :
        j \in {"fr", "uk"}, m \in {"lowercase_ascii", "none"} }
    \cup (IF id = "noms-fr"
          THEN { [ID |-> id, Jurisdiction |-> "fr", EntityType |-> "surname",
                  normalize |-> "lowercase_ascii", Entries |-> {},
                  Method |-> "pattern", patterns |-> {<<"E">>}] }
          ELSE {})

\* the ID sets a registry can hold
IDSets == SUBSET {DictIDs[i] : i \in 1..Len(DictIDs)}

\* the dictionary sets Load can leave in r.dicts
Registries ==
    UNION { { r \in [S -> UNION {Dictionaries(id) : id \in S}] :
                \A id \in S : r[id].ID = id } : S \in IDSets }

\* opts == nil
NilOpts == [ptr |-> "nil", Jurisdictions |-> {}, Types |-> {}, Dicts |-> {}]

\* the ClassifyOptions callers pass
Options ==
    {NilOpts} \cup [ptr : {"set"}, Jurisdictions : {{}, {"fr"}},
                    Types : {{}, {"surname"}}, Dicts : {{}, {"noms-fr"}}]

\* ids after sort.Strings (registry.go 94-98)
SortedIDs(dicts) ==
    SelectSeq(DictIDs, LAMBDA id : id \in DOMAIN dicts)

\* the three filters of registry.go 102-112: TRUE when d is skipped
FilteredOut(opts, d) ==
    /\ opts.ptr # "nil"
    /\ \/ opts.Jurisdictions # {} /\ d.Jurisdiction \notin opts.Jurisdictions
       \/ opts.Types # {} /\ d.EntityType \notin opts.Types
       \/ opts.Dicts # {} /\ d.ID \notin opts.Dicts

\* patternMatcher.match: the term with its spaces removed against the
\* patterns (no term of Terms holds a space)
PatternMatch(d, term) == term \in d.patterns

\* the Match appended at registry.go 123-131
MatchOf(d) ==
    [DictID |-> d.ID, Jurisdiction |-> d.Jurisdiction,
     EntityType |-> d.EntityType,
     Metadata |-> IF d.Method = "pattern" THEN "pattern" ELSE "none"]

InitReg ==
    /\ SrvInit /\ mcpHandler /\ LibIdleBut("reg")
    /\ rDicts \in Registries
    /\ stripBuf = << >>
    /\ clPc = [g \in Callers |-> "idle"]
    /\ clTerm = [g \in Callers |-> << >>]
    /\ clOpts = [g \in Callers |-> NilOpts]
    /\ clI = [g \in Callers |-> 0]
    /\ clFor = [g \in Callers |-> "none"]
    /\ clRes = [g \in Callers |->
                   [Term |-> << >>, Normalized |-> << >>, Matches |-> << >>]]

\* the dictionary the loop of caller g is at
CurDict(g) == rDicts[SortedIDs(rDicts)[clI[g]]]

\* registry.go 84-98: the result is allocated and the IDs sorted
Classify_Call(g, term, opts) ==
    /\ clPc[g] = "idle"
    /\ clPc' = [clPc EXCEPT ![g] = "loop"]
    /\ clTerm' = [clTerm EXCEPT ![g] = term]
    /\ clOpts' = [clOpts EXCEPT ![g] = opts]
    /\ clI' = [clI EXCEPT ![g] = 1]
    /\ clRes' = [clRes EXCEPT ![g] =
                    [Term |-> term, Normalized |-> << >>, Matches |-> << >>]]
    /\ UNCHANGED <<rDicts, stripBuf, clFor>>
    /\ UNCHANGED not_reg

\* the caller goes on after d.Classify returned ok (registry.go 114-117)
AfterLookup(g, ok) ==
    IF ok THEN /\ clPc' = [clPc EXCEPT ![g] = "matched"]
               /\ UNCHANGED clI
          ELSE /\ clPc' = [clPc EXCEPT ![g] = "loop"]
               /\ clI' = [clI EXCEPT ![g] = @ + 1]

\* registry.go 100-117: the next dictionary, its filters, and
\* Dictionary.Classify (dict.go 71-80): a pattern match, or Lookup, whose
\* d.normalize(term) enters stripAccents for lowercase_ascii
Classify_Dict(g) ==
    /\ clPc[g] = "loop"
    /\ clI[g] <= Len(SortedIDs(rDicts))
    /\ LET d == CurDict(g) IN
         IF FilteredOut(clOpts[g], d)
         THEN /\ clI' = [clI EXCEPT ![g] = @ + 1]
              /\ UNCHANGED <<clPc, clFor>>
         ELSE IF d.Method = "pattern"
         THEN AfterLookup(g, PatternMatch(d, clTerm[g])) /\ UNCHANGED clFor
         ELSE IF d.normalize \in {"lowercase_utf8", "none"}
         THEN AfterLookup(g, Normalize(d.normalize, clTerm[g]) \in d.Entries)
              /\ UNCHANGED clFor
         ELSE /\ clPc' = [clPc EXCEPT ![g] = "nfd"]
              /\ clFor' = [clFor EXCEPT ![g] = "lookup"]
              /\ UNCHANGED clI
    /\ UNCHANGED <<rDicts, stripBuf, clTerm, clOpts, clRes>>
    /\ UNCHANGED not_reg

\* registry.go 119-131 once Normalized is known: the match is appended
Appended(g, normalized) ==
    /\ clRes' = [clRes EXCEPT ![g] =
                    [@ EXCEPT !.Normalized = normalized,
                              !.Matches = Append(@, MatchOf(CurDict(g)))]]
    /\ clPc' = [clPc EXCEPT ![g] = "loop"]
    /\ clI' = [clI EXCEPT ![g] = @ + 1]

\* registry.go 119-121: the first match sets Normalized with the
\* dictionary's normalizer
Classify_Matched(g) ==
    /\ clPc[g] = "matched"
    /\ LET d == CurDict(g) IN
         IF clRes[g].Normalized # << >>
         THEN Appended(g, clRes[g].Normalized) /\ UNCHANGED clFor
         ELSE IF d.normalize \in {"lowercase_utf8", "none"}
         THEN Appended(g, Normalize(d.normalize, clTerm[g])) /\ UNCHANGED clFor
         ELSE /\ clPc' = [clPc EXCEPT ![g] = "nfd"]
              /\ clFor' = [clFor EXCEPT ![g] = "term"]
              /\ UNCHANGED <<clI, clRes>>
    /\ UNCHANGED <<rDicts, stripBuf, clTerm, clOpts>>
    /\ UNCHANGED not_reg

\* registry.go 134-137: the loop is over; the fallback normalization
Classify_End(g) ==
    /\ clPc[g] = "loop"
    /\ clI[g] > Len(SortedIDs(rDicts))
    /\ IF clRes[g].Normalized = << >>
       THEN /\ clPc' = [clPc EXCEPT ![g] = "nfd"]
            /\ clFor' = [clFor EXCEPT ![g] = "fallback"]
       ELSE /\ clPc' = [clPc EXCEPT ![g] = "returned"]
            /\ UNCHANGED clFor
    /\ UNCHANGED <<rDicts, stripBuf, clTerm, clOpts, clI, clRes>>
    /\ UNCHANGED not_reg

\* the caller goes on with v, what its call of the normalizer returned
NormReturned(g, v) ==
    CASE clFor[g] = "lookup" ->
           AfterLookup(g, v \in CurDict(g).Entries) /\ UNCHANGED clRes
      [] clFor[g] = "term" -> Appended(g, v)
      [] OTHER ->
           /\ clRes' = [clRes EXCEPT ![g] = [@ EXCEPT !.Normalized = v]]
           /\ clPc' = [clPc EXCEPT ![g] = "returned"]
           /\ UNCHANGED clI

\* transform.String(stripAccents, strings.ToLower(s)), first half: an empty
\* string is returned at once; otherwise the one package-level chain
\* (normalize.go 16) writes the NFD form into the buffer it keeps between
\* its links
Norm_NFD(g) ==
    /\ clPc[g] = "nfd"
    /\ IF clTerm[g] = << >>
       THEN NormReturned(g, << >>) /\ UNCHANGED stripBuf
       ELSE /\ stripBuf' = NFD(ToLower(clTerm[g]))
            /\ clPc' = [clPc EXCEPT ![g] = "strip"]
            /\ UNCHANGED <<clI, clRes>>
    /\ UNCHANGED <<rDicts, clTerm, clOpts, clFor>>
    /\ UNCHANGED not_reg

\* second half: the Remove and NFC links read that buffer, and the caller
\* goes on with what they produced
Norm_Strip(g) ==
    /\ clPc[g] = "strip"
    /\ NormReturned(g, NFC(RemoveMn(stripBuf)))
    /\ UNCHANGED <<rDicts, stripBuf, clTerm, clOpts, clFor>>
    /\ UNCHANGED not_reg

NextReg ==
    \/ \E term \in Terms, opts \in Options : Classify_Call(1, term, opts)
    \/ \E term \in Terms : Classify_Call(2, term, NilOpts)
    \/ \E g \in Callers :
          \/ Classify_Dict(g) \/ Classify_Matched(g)
          \/ Classify_End(g) \/ Norm_NFD(g) \/ Norm_Strip(g)

SpecReg == InitReg /\ [][NextReg]_vars

(* ======================= batch classification ========================== *)
(* classifyBatchEndpoint (endpoints.go 40-55) behind its two transports:   *)
(* handleClassifyBatch (handler.go 67-88) and the decoder of the MCP tool  *)
(* classify_batch (mcp.go 59-73).  MaxBatch stands for the limit of 100    *)
(* terms.  A term is a sequence of characters.                             *)

\* the characters of an MCP "terms" argument
ArgChars == {"a", "b", ",", " "}

\* the terms of an HTTP body
BodyTerms == {<<"a">>, <<"b">>}

\* strings.Split(s, ","): the pieces between the commas, one more than
\* there are commas; the empty string gives one empty piece
RECURSIVE Split(_)
Split(s) ==
    IF \A i \in 1..Len(s) : s[i] # "," THEN <<s>>
    ELSE LET k == CHOOSE i \in 1..Len(s) :
                    s[i] = "," /\ \A j \in 1..(i - 1) : s[j] # ","
         IN <<SubSeq(s, 1, k - 1)>> \o Split(SubSeq(s, k + 1, Len(s)))

\* strings.TrimSpace
RECURSIVE TrimSpace(_)
TrimSpace(s) ==
    IF s = << >> THEN s
    ELSE IF Head(s) = " " THEN TrimSpace(Tail(s))
    ELSE IF s[Len(s)] = " " THEN TrimSpace(SubSeq(s, 1, Len(s) - 1))
    ELSE s

\* reg.Classify(term, opts) as far as the batch is concerned: the result
\* carries its term (registry.go 88-89)
ClassifyTerm(term) == [Term |-> term]

\* classifyBatchEndpoint, endpoints.go 41-54: the answer and the terms
\* classified on the way
ClassifyBatchEndpoint(terms) ==
    IF Len(terms) = 0
    THEN [resp |-> [kind |-> "error", results |-> << >>], classified |-> << >>]
    ELSE IF Len(terms) > MaxBatch
    THEN [resp |-> [kind |-> "error", results |-> << >>], classified |-> << >>]
    ELSE [resp |-> [kind |-> "results",
                    results |-> [i \in 1..Len(terms) |-> ClassifyTerm(terms[i])]],
          classified |-> terms]

InitBatch ==
    /\ SrvInit /\ mcpHandler /\ LibIdleBut("batch")
    /\ BatchIdle

\* handleClassifyBatch, handler.go 67-73: the body is decoded; a body that
\* is not JSON is answered 400 at once
HandleClassifyBatch_Decode(body) ==
    /\ bPc = "idle"
    /\ bRoute' = "http"
    /\ bBody' = body
    /\ IF body.ok
       THEN /\ bReq' = body.terms
            /\ bPc' = "decoded"
            /\ UNCHANGED bResp
       ELSE /\ bResp' = [kind |-> "error", results |-> << >>]
            /\ bPc' = "done"
            /\ UNCHANGED bReq
    /\ UNCHANGED <<bArg, bClassified>>
    /\ UNCHANGED not_batch

\* the decoder of classify_batch, mcp.go 59-73: the argument is split at
\* the commas and each piece trimmed; more than the limit is an error
MCPClassifyBatch_Decode(arg) ==
    /\ bPc = "idle"
    /\ bRoute' = "mcp"
    /\ bArg' = arg
    /\ LET pieces == Split(arg)
           terms == [i \in 1..Len(pieces) |-> TrimSpace(pieces[i])] IN
         IF Len(terms) > MaxBatch
         THEN /\ bResp' = [kind |-> "error", results |-> << >>]
              /\ bPc' = "done"
              /\ UNCHANGED bReq
         ELSE /\ bReq' = terms
              /\ bPc' = "decoded"
              /\ UNCHANGED bResp
    /\ UNCHANGED <<bBody, bClassified>>
    /\ UNCHANGED not_batch

\* the endpoint is called with the decoded request and its answer written
\* (handler.go 75-87, kit.RegisterMCPTool)
Batch_Endpoint ==
    /\ bPc = "decoded"
    /\ LET r == ClassifyBatchEndpoint(bReq) IN
         /\ bResp' = r.resp
         /\ bClassified' = r.classified
    /\ bPc' = "done"
    /\ UNCHANGED <<bRoute, bBody, bArg, bReq>>
    /\ UNCHANGED not_batch

NextBatch ==
    \/ \E terms \in SeqsUpTo(BodyTerms, MaxBatch + 1) :
          HandleClassifyBatch_Decode([ok |-> TRUE, terms |-> terms])
    \/ HandleClassifyBatch_Decode([ok |-> FALSE, terms |-> << >>])
    \/ \E arg \in SeqsUpTo(ArgChars, MaxArg) : MCPClassifyBatch_Decode(arg)
    \/ Batch_Endpoint

SpecBatch == InitBatch /\ [][NextBatch]_vars

(* ============================ downloadFile ============================= *)
(* downloadFile (helpers.go 19-70): the retry loop, its backoff select and *)
(* what one attempt can lead to.                                           *)

\* what one client.Do and the lines after it can lead to:
\*   "transport"  client.Do returned an error (line 39)
\*   "status"     a status other than 200 (line 44)
\*   "create"     status 200, os.Create failed (line 51)
\*   "copy"       status 200, io.Copy returned an error (line 60)
\*   "close"      status 200, io.Copy returned nil, f.Close failed (line 64)
\*   "ok"         status 200, io.Copy returned nil, f.Close returned nil
Outcomes == {"transport", "status", "create", "copy", "close", "ok"}

\* a loop that gives up on a copy error instead of trying again
RetriedNoCopy == {"transport", "status"}

\* the outcomes after which the loop continues (lines 41, 47, 62)
Retried == {"transport", "status", "copy"}

\* what an attempt can lead to: with ctx cancelled the request carries a
\* cancelled context and client.Do returns its error
Possible(done) == IF done THEN {"transport"} ELSE Outcomes

\* the error returned after an outcome that ends the loop (lines 53, 65, 67)
ReturnOf(o) ==
    CASE o = "create" -> "create file"
      [] o = "close" -> "closeErr"
      [] OTHER -> "nil"

InitDl ==
    /\ SrvInit /\ mcpHandler /\ LibIdleBut("dl")
    /\ DlIdle

\* downloadFile is called (lines 19-22)
Download_Call(urlOk) ==
    /\ dlPc = "idle"
    /\ dlPc' = "loop"
    /\ dlUrlOk' = urlOk
    /\ UNCHANGED <<dlAttempt, dlOutcomes, dlCtxDone, dlWoken, dlRet>>
    /\ UNCHANGED not_dl

\* a select entered with ctx already cancelled is completed by ctx.Done()
SelectEntered(done) == IF done THEN "ctx" ELSE "none"

\* lines 23-31 and 69: the loop condition, and the select before every
\* attempt but the first
Download_LoopTop ==
    /\ dlPc = "loop"
    /\ IF dlAttempt >= MaxAttempts
       THEN /\ dlPc' = "returned"
            /\ dlRet' = "failed after 3 attempts"
            /\ UNCHANGED dlWoken
       ELSE IF dlAttempt > 0
       THEN /\ dlPc' = "backoff"
            /\ dlWoken' = SelectEntered(dlCtxDone)
            /\ UNCHANGED dlRet
       ELSE /\ dlPc' = "request"
            /\ UNCHANGED <<dlWoken, dlRet>>
    /\ UNCHANGED <<dlUrlOk, dlAttempt, dlOutcomes, dlCtxDone>>
    /\ UNCHANGED not_dl

\* the caller cancels ctx; a select that is waiting is completed by it
Download_CtxCancel ==
    /\ dlPc \in {"loop", "backoff", "request"}
    /\ ~dlCtxDone
    /\ dlCtxDone' = TRUE
    /\ dlWoken' = IF dlPc = "backoff" /\ dlWoken = "none" THEN "ctx" ELSE dlWoken
    /\ UNCHANGED <<dlPc, dlUrlOk, dlAttempt, dlOutcomes, dlRet>>
    /\ UNCHANGED not_dl

\* time.After(backoff) fires; a select that is waiting is completed by it
Download_TimerFires ==
    /\ dlPc = "backoff"
    /\ dlWoken = "none"
    /\ dlWoken' = "timer"
    /\ UNCHANGED <<dlPc, dlUrlOk, dlAttempt, dlOutcomes, dlCtxDone, dlRet>>
    /\ UNCHANGED not_dl

\* lines 26-30: the select returns
Download_Select ==
    /\ dlPc = "backoff"
    /\ dlWoken # "none"
    /\ IF dlWoken = "ctx"
       THEN dlPc' = "returned" /\ dlRet' = "ctx.Err()"
       ELSE dlPc' = "request" /\ UNCHANGED dlRet
    /\ dlWoken' = "none"
    /\ UNCHANGED <<dlUrlOk, dlAttempt, dlOutcomes, dlCtxDone>>
    /\ UNCHANGED not_dl

\* lines 33-67: the request is built and sent, and the answer stored
Download_Attempt(o) ==
    /\ dlPc = "request"
    /\ IF ~dlUrlOk
       THEN /\ dlPc' = "returned"
            /\ dlRet' = "create request"
            /\ UNCHANGED <<dlAttempt, dlOutcomes>>
       ELSE /\ o \in Possible(dlCtxDone)
            /\ dlOutcomes' = Append(dlOutcomes, o)
            /\ IF o \in Retried
               THEN /\ dlAttempt' = dlAttempt + 1
                    /\ dlPc' = "loop"
                    /\ UNCHANGED dlRet
               ELSE /\ dlPc' = "returned"
                    /\ dlRet' = ReturnOf(o)
                    /\ UNCHANGED dlAttempt
    /\ UNCHANGED <<dlUrlOk, dlCtxDone, dlWoken>>
    /\ UNCHANGED not_dl

NextDl ==
    \/ \E urlOk \in BOOLEAN : Download_Call(urlOk)
    \/ Download_LoopTop \/ Download_CtxCancel \/ Download_TimerFires
    \/ Download_Select
    \/ \E o \in Outcomes : Download_Attempt(o)

SpecDl == InitDl /\ [][NextDl]_vars

(* =============================== SourceDB ============================== *)
(* SourceDB over its one table import_sources (checker.go 141-228): Seed,  *)
(* SetURL and UpdateCheck as the SQL statements they execute.  A column    *)
(* that can be NULL holds << >> for NULL and <<v>> for a value.            *)

AdapterIDs == {"a1", "a2"}

\* the readings of time.Now().Unix(): two, so that a row's timestamps can
\* differ from the time of a later call
Times == {0, 1}

\* the source URLs: two an adapter can have as its default, one set by hand
DefaultURLs == {"https://example.com", "https://changed.com"}
URLs == DefaultURLs \cup {"https://mirror.org"}

\* the adapters handed to Seed: ID() and DefaultURL()
Adapters == [ID : AdapterIDs, DefaultURL : DefaultURLs]

\* the outcomes UpdateCheck records: HTTP status and error text
Checks == {[status |-> 200, err |-> ""], [status |-> 500, err |-> "HTTP 500"]}

\* a statement that replaces the row it finds
InsertOrReplace(rows, id, row) ==
    [k \in DOMAIN rows \cup {id} |-> IF k = id THEN row ELSE rows[k]]

\* INSERT OR IGNORE on the primary key adapter_id (checker.go 174-176)
InsertOrIgnore(rows, id, row) ==
    IF id \in DOMAIN rows THEN rows
    ELSE [k \in DOMAIN rows \cup {id} |-> IF k = id THEN row ELSE rows[k]]

\* the row Seed inserts for adapter a at time now (checker.go 174-180)
SeedRow(a, now) ==
    [source_url |-> a.DefaultURL, last_check |-> << >>, last_status |-> << >>,
     last_error |-> << >>, updated_at |-> now]

\* the loop of Seed over its first n adapters (checker.go 179-183)
RECURSIVE SeedLoop(_, _, _, _)
SeedLoop(rows, adapters, n, now) ==
    IF n = 0 THEN rows
    ELSE InsertOrIgnore(SeedLoop(rows, adapters, n - 1, now),
                        adapters[n].ID, SeedRow(adapters[n], now))

InitSdb ==
    /\ SrvInit /\ mcpHandler /\ LibIdleBut("sdb")
    /\ SdbIdle

\* Seed(adapters); fails == 0 when every Exec succeeds, else the index of
\* the adapter whose Exec returns an error, which ends the loop
Seed(adapters, fails) ==
    /\ fails \in 0..Len(adapters)
    /\ sdbRows' = SeedLoop(sdbRows, adapters,
                           IF fails = 0 THEN Len(adapters) ELSE fails - 1, sdbNow)
    /\ sdbOp' = [name |-> "Seed", ok |-> fails = 0]
    /\ UNCHANGED <<sdbNow, sdbSet>>
    /\ UNCHANGED not_sdb

\* SetURL(adapterID, url), checker.go 198-211; execOk == FALSE when the
\* UPDATE returns an error
SetURL(adapterID, url, execOk) ==
    /\ IF execOk /\ adapterID \in DOMAIN sdbRows
       THEN /\ sdbRows' = [sdbRows EXCEPT ![adapterID] =
                              [@ EXCEPT !.source_url = url, !.updated_at = sdbNow]]
            /\ sdbSet' = [k \in DOMAIN sdbSet \cup {adapterID} |->
                              IF k = adapterID THEN url ELSE sdbSet[k]]
            /\ sdbOp' = [name |-> "SetURL", ok |-> TRUE]
       ELSE /\ sdbOp' = [name |-> "SetURL", ok |-> FALSE]
            /\ UNCHANGED <<sdbRows, sdbSet>>
    /\ UNCHANGED sdbNow
    /\ UNCHANGED not_sdb

\* UpdateCheck(adapterID, status, checkErr), checker.go 214-228: an empty
\* checkErr is stored as NULL; no row affected is not an error
UpdateCheck(adapterID, c, execOk) ==
    /\ IF execOk /\ adapterID \in DOMAIN sdbRows
       THEN sdbRows' = [sdbRows EXCEPT ![adapterID] =
                           [@ EXCEPT !.last_check = <<sdbNow>>,
                                     !.last_status = <<c.status>>,
                                     !.last_error = IF c.err = "" THEN << >>
                                                    ELSE <<c.err>>]]
       ELSE UNCHANGED sdbRows
    /\ sdbOp' = [name |-> "UpdateCheck", ok |-> execOk]
    /\ UNCHANGED <<sdbNow, sdbSet>>
    /\ UNCHANGED not_sdb

\* time passes between calls
Sdb_Tick ==
    /\ sdbNow + 1 \in Times
    /\ sdbNow' = sdbNow + 1
    /\ UNCHANGED <<sdbRows, sdbSet, sdbOp>>
    /\ UNCHANGED not_sdb

NextSdb ==
    \/ \E adapters \in SeqsUpTo(Adapters, MaxSeed), fails \in 0..MaxSeed :
          Seed(adapters, fails)
    \/ \E id \in AdapterIDs, url \in URLs, execOk \in BOOLEAN :
          SetURL(id, url, execOk)
    \/ \E id \in AdapterIDs, c \in Checks, execOk \in BOOLEAN :
          UpdateCheck(id, c, execOk)
    \/ Sdb_Tick

SpecSdb == InitSdb /\ [][NextSdb]_vars

(* ===== chassis: the handles over several Start and Stop calls ========= *)
(* part_010 126-248. Start and Stop may be called any number of times, *)
(* from any goroutine; the objects Start makes are named by the call   *)
(* that made them.                                                     *)

InitLc == SrvInit /\ mcpHandler /\ LibIdleBut("lc") /\ LcIdle

\* Start, line 127: s.mu.Lock()
Lc_StartLock(k) ==
    /\ lcStartPc[k] = "idle"
    /\ \A j \in StartCalls : j < k => lcStartPc[j] # "idle"
    /\ lcMu = "free"
    /\ lcMu' = "Start"
    /\ lcStartPc' = [lcStartPc EXCEPT ![k] = "locked"]
    /\ UNCHANGED <<lcTcpServer, lcQuicLn, lcH3Server, lcTcpPc, lcServing,
                   lcTcpBound, lcLnOpen, lcShut, lcStopPc, lcStops>>
    /\ UNCHANGED not_lc

\* Start, line 135: s.tcpServer = &http.Server{...}, whatever it held
Lc_StartSetTcp(k) ==
    /\ lcStartPc[k] = "locked"
    /\ lcTcpServer' = k
    /\ lcStartPc' = [lcStartPc EXCEPT ![k] = "tcpSet"]
    /\ UNCHANGED <<lcMu, lcQuicLn, lcH3Server, lcTcpPc, lcServing,
                   lcTcpBound, lcLnOpen, lcShut, lcStopPc, lcStops>>
    /\ UNCHANGED not_lc

\* Start, lines 149-179: quic.ListenAddr. It fails (line 152: unlock, return)
\* or, the UDP port being free, succeeds: s.quicLn and s.h3Server are set,
\* the lock released and the TCP goroutine started
Lc_StartListen(k, ok) ==
    /\ lcStartPc[k] = "tcpSet"
    /\ ok => lcLnOpen = {}
    /\ lcMu' = "free"
    /\ IF ok
       THEN /\ lcQuicLn' = k
            /\ lcH3Server' = k
            /\ lcLnOpen' = {k}
            /\ lcTcpPc' = [lcTcpPc EXCEPT ![k] = "listen"]
            /\ lcStartPc' = [lcStartPc EXCEPT ![k] = "started"]
       ELSE /\ lcStartPc' = [lcStartPc EXCEPT ![k] = "failed"]
            /\ UNCHANGED <<lcQuicLn, lcH3Server, lcLnOpen, lcTcpPc>>
    /\ UNCHANGED <<lcTcpServer, lcServing, lcTcpBound, lcShut, lcStopPc, lcStops>>
    /\ UNCHANGED not_lc

\* TCP goroutine, lines 170-174: tls.Listen. It fails (the error is sent and
\* the goroutine returns) or, the TCP port being free, binds it
Lc_TcpListen(k, ok) ==
    /\ lcTcpPc[k] = "listen"
    /\ ok => lcTcpBound = {}
    /\ IF ok
       THEN /\ lcTcpBound' = {k}
            /\ lcTcpPc' = [lcTcpPc EXCEPT ![k] = "read"]
       ELSE /\ lcTcpPc' = [lcTcpPc EXCEPT ![k] = "done"]
            /\ UNCHANGED lcTcpBound
    /\ UNCHANGED <<lcMu, lcTcpServer, lcQuicLn, lcH3Server, lcStartPc, lcServing,
                   lcLnOpen, lcShut, lcStopPc, lcStops>>
    /\ UNCHANGED not_lc

\* TCP goroutine, line 176: s.tcpServer is read, without the lock, and its
\* Serve called. Serve of a server already shut down closes the listener
\* and returns http.ErrServerClosed at once
Lc_TcpServe(k) ==
    /\ lcTcpPc[k] = "read"
    /\ lcServing' = [lcServing EXCEPT ![k] = lcTcpServer]
    /\ IF <<"tcp", lcTcpServer>> \in lcShut
       THEN /\ lcTcpPc' = [lcTcpPc EXCEPT ![k] = "done"]
            /\ lcTcpBound' = lcTcpBound \ {k}
       ELSE /\ lcTcpPc' = [lcTcpPc EXCEPT ![k] = "serve"]
            /\ UNCHANGED lcTcpBound
    /\ UNCHANGED <<lcMu, lcTcpServer, lcQuicLn, lcH3Server, lcStartPc,
                   lcLnOpen, lcShut, lcStopPc, lcStops>>
    /\ UNCHANGED not_lc

\* Stop, line 224: s.mu.Lock()
Lc_StopLock ==
    /\ lcStopPc = "idle"
    /\ lcStops < MaxStops
    /\ lcMu = "free"
    /\ lcMu' = "Stop"
    /\ lcStopPc' = "locked"
    /\ UNCHANGED <<lcTcpServer, lcQuicLn, lcH3Server, lcStartPc, lcTcpPc,
                   lcServing, lcTcpBound, lcLnOpen, lcShut, lcStops>>
    /\ UNCHANGED not_lc

\* the TCP goroutines whose Serve returns when the http.Server t is shut down
ServedBy(t) == {k \in StartCalls : lcTcpPc[k] = "serve" /\ lcServing[k] = t}

\* Stop, lines 225-247: each handle that is not nil is shut down or closed
\* (the objects the fields point to now), then the deferred s.mu.Unlock()
Lc_StopBody ==
    /\ lcStopPc = "locked"
    /\ lcShut' = lcShut
           \cup (IF lcTcpServer # 0 THEN {<<"tcp", lcTcpServer>>} ELSE {})
           \cup (IF lcQuicLn # 0 THEN {<<"quic", lcQuicLn>>} ELSE {})
           \cup (IF lcH3Server # 0 THEN {<<"h3", lcH3Server>>} ELSE {})
    /\ lcTcpPc' = [k \in StartCalls |->
                      IF k \in ServedBy(lcTcpServer) THEN "done" ELSE lcTcpPc[k]]
    /\ lcTcpBound' = lcTcpBound \ ServedBy(lcTcpServer)
    /\ lcLnOpen' = lcLnOpen \ {lcQuicLn}
    /\ lcMu' = "free"
    /\ lcStopPc' = "idle"
    /\ lcStops' = lcStops + 1
    /\ UNCHANGED <<lcTcpServer, lcQuicLn, lcH3Server, lcStartPc, lcServing>>
    /\ UNCHANGED not_lc

NextLc ==
    \/ \E k \in StartCalls :
          \/ Lc_StartLock(k)
          \/ Lc_StartSetTcp(k)
          \/ \E ok \in BOOLEAN : Lc_StartListen(k, ok)
          \/ \E ok \in BOOLEAN : Lc_TcpListen(k, ok)
          \/ Lc_TcpServe(k)
    \/ Lc_StopLock
    \/ Lc_StopBody

SpecLc == InitLc /\ [][NextLc]_vars

(* ============ mcpquic: the session identity, server.go 36-41, 63 ====== *)

\* server.go 63: the argument of randomHex
RandomHexArg == 4

\* encoding/hex: the digit of a value below 16
HexDigit(d) ==
    <<"0", "1", "2", "3", "4", "5", "6", "7",
      "8", "9", "a", "b", "c", "d", "e", "f">>[d + 1]

\* hex.EncodeToString: two digits for each byte, the high one first
RECURSIVE EncodeToString(_)
EncodeToString(b) ==
    IF b = << >> THEN << >>
    ELSE <<HexDigit(Head(b) \div 16), HexDigit(Head(b) % 16)>>
             \o EncodeToString(Tail(b))

\* server.go 38-39: the bytes rand.Read wrote for an identity of SessionIDs,
\* n of them for randomHex(n)
RandomBytes(id, n) ==
    [i \in 1..n |-> IF i = n /\ id = "quic_00000001" THEN 1 ELSE 0]

\* server.go 37-41, 63: "quic_" + randomHex(4), as its characters
SessionIDChars(id) ==
    <<"q", "u", "i", "c", "_">> \o EncodeToString(RandomBytes(id, RandomHexArg))

(* ========== dict.Registry: Load, Reload and the read methods ========== *)
(* part_006 27-58, 84-86, 153-190; main.go 110-121                       *)

\* what a sub-directory holds: nothing loadable (no manifest.yaml), a
\* dictionary LoadDictionary fails on, or a dictionary (of n entries)
DirStates ==
    {[st |-> "none", n |-> 0], [st |-> "bad", n |-> 0],
     [st |-> "ok", n |-> 1]}

\* os.ReadDir: the names, sorted
ReadDir == <<"a", "b">>

\* the reads of r.dicts one call of a read method makes: Classify ranges
\* over it (line 96) and indexes it (line 101), ListDicts takes its length
\* (line 157) and ranges over it (line 158), DictCount and TotalEntries read
\* it once
ReadsOf(op) == IF op \in {"Classify", "ListDicts"} THEN 2 ELSE 1

ReadMethods == {"Classify", "ListDicts", "DictCount", "TotalEntries"}

\* m with m[k] = v (a map assignment)
MapPut(m, k, v) == [x \in DOMAIN m \cup {k} |-> IF x = k THEN v ELSE m[x]]

InitRl == SrvInit /\ mcpHandler /\ LibIdleBut("rl") /\ RlIdle

\* the files change: a dictionary is added, replaced, damaged or removed
Rl_DiskWrite(name, d) ==
    /\ rlDisk[name] # d
    /\ rlDisk' = [rlDisk EXCEPT ![name] = d]
    /\ UNCHANGED <<rlReadable, rlDicts, rlLoadPc, rlEntries, rlNew,
                   rlLoadRet, rlReaders, rdPc, rdOp, rdSeen>>
    /\ UNCHANGED not_rl

\* the directory becomes unreadable, or readable again
Rl_Chmod ==
    /\ rlReadable' = ~rlReadable
    /\ UNCHANGED <<rlDisk, rlDicts, rlLoadPc, rlEntries, rlNew,
                   rlLoadRet, rlReaders, rdPc, rdOp, rdSeen>>
    /\ UNCHANGED not_rl

\* Load (and Reload, which calls it), lines 28-33: os.ReadDir; on an error
\* Load returns it, otherwise newDicts is made empty
Rl_ReadDir ==
    /\ rlLoadPc = "idle"
    /\ IF rlReadable
       THEN /\ rlEntries' = ReadDir
            /\ rlNew' = << >>
            /\ rlLoadPc' = "loop"
            /\ UNCHANGED rlLoadRet
       ELSE /\ rlLoadRet' = "err"
            /\ UNCHANGED <<rlEntries, rlNew, rlLoadPc>>
    /\ UNCHANGED <<rlDisk, rlReadable, rlDicts, rlReaders, rdPc, rdOp, rdSeen>>
    /\ UNCHANGED not_rl

\* Load, lines 34-47: one entry. Without a manifest it is skipped; when
\* LoadDictionary fails Load returns the error; otherwise the dictionary is
\* put into newDicts. After the last entry Load goes to line 49.
Rl_LoadEntry ==
    /\ rlLoadPc = "loop"
    /\ rlEntries # << >>
    /\ LET name == Head(rlEntries)
           d == rlDisk[name]
           last == Len(rlEntries) = 1
       IN  IF d.st = "bad"
           THEN /\ rlLoadRet' = "err"
                /\ rlLoadPc' = "idle"
                /\ rlEntries' = << >>
                /\ rlNew' = << >>
           ELSE /\ rlNew' = (IF d.st = "ok" THEN MapPut(rlNew, name, d.n) ELSE rlNew)
                /\ rlEntries' = Tail(rlEntries)
                /\ rlLoadPc' = (IF last THEN "swap" ELSE "loop")
                /\ UNCHANGED rlLoadRet
    /\ UNCHANGED <<rlDisk, rlReadable, rlDicts, rlReaders, rdPc, rdOp, rdSeen>>
    /\ UNCHANGED not_rl

\* the swap made without waiting for the readers to release the lock
Rl_SwapUnlocked ==
    /\ rlLoadPc = "swap"
    /\ rlDicts' = rlNew
    /\ rlNew' = << >>
    /\ rlLoadRet' = "nil"
    /\ rlLoadPc' = "idle"
    /\ UNCHANGED <<rlDisk, rlReadable, rlEntries, rlReaders, rdPc, rdOp, rdSeen>>
    /\ UNCHANGED not_rl

\* Load, lines 49-52: r.mu.Lock() (granted when no reader holds the lock),
\* r.dicts = newDicts, r.mu.Unlock(), return nil
Rl_Swap ==
    /\ rlLoadPc = "swap"
    /\ rlReaders = {}
    /\ rlDicts' = rlNew
    /\ rlNew' = << >>
    /\ rlLoadRet' = "nil"
    /\ rlLoadPc' = "idle"
    /\ UNCHANGED <<rlDisk, rlReadable, rlEntries, rlReaders, rdPc, rdOp, rdSeen>>
    /\ UNCHANGED not_rl

\* Classify 85, ListDicts 154, DictCount 176, TotalEntries 183: r.mu.RLock()
Rl_RLock(g, op) ==
    /\ rdPc[g] = "idle"
    /\ rlReaders' = rlReaders \cup {g}
    /\ rdPc' = [rdPc EXCEPT ![g] = "locked"]
    /\ rdOp' = [rdOp EXCEPT ![g] = op]
    /\ rdSeen' = [rdSeen EXCEPT ![g] = << >>]
    /\ UNCHANGED <<rlDisk, rlReadable, rlDicts, rlLoadPc, rlEntries,
                   rlNew, rlLoadRet>>
    /\ UNCHANGED not_rl

\* one read of r.dicts by the method
Rl_Read(g) ==
    /\ rdPc[g] = "locked"
    /\ Len(rdSeen[g]) < ReadsOf(rdOp[g])
    /\ rdSeen' = [rdSeen EXCEPT ![g] = Append(@, rlDicts)]
    /\ UNCHANGED <<rlDisk, rlReadable, rlDicts, rlLoadPc, rlEntries,
                   rlNew, rlLoadRet, rlReaders, rdPc, rdOp>>
    /\ UNCHANGED not_rl

\* the deferred r.mu.RUnlock() when the method returns
Rl_RUnlock(g) ==
    /\ rdPc[g] = "locked"
    /\ Len(rdSeen[g]) = ReadsOf(rdOp[g])
    /\ rlReaders' = rlReaders \ {g}
    /\ rdPc' = [rdPc EXCEPT ![g] = "idle"]
    /\ rdOp' = [rdOp EXCEPT ![g] = "none"]
    /\ rdSeen' = [rdSeen EXCEPT ![g] = << >>]
    /\ UNCHANGED <<rlDisk, rlReadable, rlDicts, rlLoadPc, rlEntries,
                   rlNew, rlLoadRet>>
    /\ UNCHANGED not_rl

NextRl ==
    \/ \E name \in DirNames, d \in DirStates : Rl_DiskWrite(name, d)
    \/ Rl_Chmod
    \/ Rl_ReadDir
    \/ Rl_LoadEntry
    \/ Rl_Swap
    \/ \E g \in Readers :
          \/ \E op \in ReadMethods : Rl_RLock(g, op)
          \/ Rl_Read(g)
          \/ Rl_RUnlock(g)

SpecRl == InitRl /\ [][NextRl]_vars

(* ============================ the claims ============================= *)

\* the codes of the wire contract (errors.go 10-22)
ConnCodes == {ConnErrorNoError, ConnErrorUnsupportedALPN, ConnErrorProtocolViolation}
StreamCodes == {StreamErrorNoError, StreamErrorProtocolConfusion,
                StreamErrorMessageTooLarge}

\* the server accepted a stream on c: its handler got past AcceptStream
StreamAccepted(c) == pc[c] \in {"magic", "register", "read", "write"} \/ magicRes[c] # "none"

\* C1: every accepted connection whose ALPN is neither h3 nor horos-mcp-v1
\* has been closed with the unsupported-ALPN code 0x01 and nothing else was
\* sent on it, no handler goroutine runs for it and no stream was accepted
\* on it.
C1_UnknownALPNClosedWith01 ==
    \A c \in Conns :
        (cstate[c] = "accepted" /\ alpn[c] \notin {ALPNProtocolH3, ALPNProtocolMCP})
        => /\ wire[c] = << Frame("CloseWithError", ConnErrorUnsupportedALPN) >>
           /\ pc[c] = "none"
           /\ ~StreamAccepted(c)

\* the first four bytes the handler received on c are exactly MCP1
GotMagic(c) ==
    Len(hello[c]) >= 4 /\ SubSeq(hello[c], 1, 4) = <<"M", "C", "P", "1">>

\* the entries of the RPC server's session table made for connection c
SessOf(c) == {s \in sessions : s.conn = c}

\* C2: when ValidateMagicBytes has returned on a connection whose first 4
\* bytes were not exactly MCP1, the handler has sent CancelWrite(0x02),
\* CancelRead(0x02) and CloseWithError(0x03), in that order and nothing
\* else, it has returned, and no session was registered for the connection:
\* no identity drawn, no RegisterSession, no entry in the table.
C2_BadMagicNeverRegisters ==
    \A c \in Conns :
        (magicRes[c] # "none" /\ ~GotMagic(c))
        => /\ wire[c] = << Frame("CancelWrite", 2), Frame("CancelRead", 2),
                           Frame("CloseWithError", 3) >>
           /\ pc[c] = "done"
           /\ sid[c] = "none" /\ regCount[c] = 0 /\ SessOf(c) = {}
           /\ npc[c] = "none" /\ dispatched[c] = <<>>

C2_Witness ==
    /\ magicRes[1] = "invalid"
    /\ hello[1] = <<"X", "X", "X", "X">>
    /\ Len(inq[1]) > 0
    /\ pc[1] = "done"

\* C3: a connection registers at most one session, and registers it before
\* any message is dispatched; while its read loop runs exactly that session
\* is in the table; whatever ends the loop (EOF, read error, write error)
\* the session is unregistered exactly once; nothing of the connection is
\* in the table after ServeConn returned; no identity is in the table twice.
C3_SessionLifecycle ==
    /\ \A s, t \in sessions : s.id = t.id => s = t
    /\ \A c \in Conns :
          /\ regCount[c] <= 1
          /\ unregCount[c] <= regCount[c]
          /\ Cardinality(SessOf(c)) = regCount[c] - unregCount[c]
          /\ dispatched[c] # <<>> => regCount[c] = 1
          /\ pc[c] \in {"read", "write"} =>
                /\ regCount[c] = 1 /\ unregCount[c] = 0
                /\ SessOf(c) = {[id |-> sid[c], conn |-> c]}
          /\ endedBy[c] # "none" => regCount[c] = 1 /\ unregCount[c] = 1
          /\ pc[c] = "done" => SessOf(c) = {}
          /\ (pc[c] = "done" /\ regCount[c] = 1) => endedBy[c] # "none"

C3_Witness ==
    /\ endedBy[1] = "writeerr"
    /\ regCount[1] = 1 /\ unregCount[1] = 1
    /\ dispatched[1] # <<>>
    /\ SessOf(2) # {}

\* the replies written on c, and the requests dispatched on c, in order
IsResp(m) == m.type = "resp"
IsReq(m) == m.type = "req"
Resps(c) == SelectSeq(out[c], IsResp)
Reqs(c) == SelectSeq(dispatched[c], IsReq)

\* the replies on c answer the requests dispatched on c, one for one and in
\* the same order
AnsweredInOrder(c) ==
    /\ Len(Resps(c)) <= Len(Reqs(c))
    /\ \A i \in 1..Len(Resps(c)) :
          Resps(c)[i] = [type |-> "resp", conn |-> c, seq |-> Reqs(c)[i].seq]

\* C4: lines are dispatched in the order they were sent; the replies on the
\* stream answer the dispatched requests one for one, in order; a request
\* is answered before the next line is read; and when the loop ends at EOF
\* after N lines that were all requests, exactly N replies were written,
\* the i-th answering the i-th line.
C4_RepliesInRequestOrder ==
    \A c \in Conns :
        /\ AnsweredInOrder(c)
        /\ \A i \in 1..(Len(dispatched[c]) - 1) :
              dispatched[c][i].seq < dispatched[c][i + 1].seq
        /\ pc[c] = "read" => Len(Resps(c)) = Len(Reqs(c))
        /\ (endedBy[c] = "eof" /\ Len(Reqs(c)) = sent[c]) =>
              /\ Len(Resps(c)) = sent[c]
              /\ \A i \in 1..sent[c] : Resps(c)[i].seq = i

C4_Witness ==
    /\ endedBy[1] = "eof"
    /\ sent[1] = 2
    /\ Len(Reqs(1)) = 2
    /\ Len(Resps(1)) = 2

\* every line on the stream of c was written for c
NoCrossTalk == \A c \in Conns : \A i \in 1..Len(out[c]) : out[c][i].conn = c

\* a step in which the handler of c returns leaves every other connection
\* as it was: handler and notification goroutine where they were, session
\* still in the table, stream and queue untouched
FailureLocal ==
    \A c, d \in Conns :
        (c # d /\ pc[c] \in {"acceptStream", "magic", "register", "read", "write"}
               /\ pc'[c] = "done")
        => /\ pc'[d] = pc[d] /\ npc'[d] = npc[d]
           /\ SessOf(d)' = SessOf(d)
           /\ out'[d] = out[d] /\ notifQ'[d] = notifQ[d]

StepNames == <<"tcp", "quic", "h3">>

\* the steps of the last Stop that returned an error
FailedSteps == {i \in 1..3 : stopOut[i] \notin {"skip", "nil"}}

\* C6: once a Stop has returned, every step whose handle Start had set was
\* called, whatever the steps before it returned (all three after a
\* successful Start), and the error returned is that of the first step, in
\* the order TCP, QUIC, HTTP/3, that returned one; nil when none did.
C6_StopTriesAllReturnsFirst ==
    stopCalls >= 1 =>
        /\ stopTried = {StepNames[i] : i \in {j \in 1..3 : stopSaw[j] # "nil"}}
        /\ \A i \in 1..3 : stopOut[i] = "skip" <=> stopSaw[i] = "nil"
        /\ IF FailedSteps = {}
           THEN stopRet = [step |-> "none", kind |-> "nil"]
           ELSE LET i == CHOOSE j \in FailedSteps : \A k \in FailedSteps : j <= k
                IN stopRet = [step |-> StepNames[i], kind |-> stopOut[i]]

C6_Witness ==
    /\ stopCalls = 1
    /\ stopOut = <<"err", "err", "nil">>
    /\ stopTried = {"tcp", "quic", "h3"}
    /\ stopRet = [step |-> "tcp", kind |-> "err"]

\* C7: Stop releases the chassis mutex when it returns, so a second Stop is
\* never blocked by the first; a Stop only calls steps whose handle is set;
\* and a Stop that finds all three handles already closed by an earlier
\* Stop returns nil or an already-closed error of one of the steps.
C7_StopIdempotent ==
    /\ (stopPc = "idle" /\ startPc # "locked") => mu = "free"
    /\ stopCalls >= 1 =>
          \A i \in 1..3 : StepNames[i] \in stopTried => stopSaw[i] # "nil"
    /\ (stopCalls >= 2 /\ stopSaw = <<"closed", "closed", "closed">>) =>
          stopRet.kind \in {"nil", "closed"}

C7_Witness ==
    /\ stopCalls = 2
    /\ stopPc = "idle" /\ mu = "free"
    /\ stopSaw = <<"closed", "closed", "closed">>
    /\ stopTried = {"tcp", "quic", "h3"}
    /\ stopRet.kind = "closed"

\* a chassis goroutine is blocked in Accept, AcceptStream or a stream read,
\* or Start is still in its select
GoroutineBlocked ==
    \/ startPc = "select"
    \/ tcpPc = "serve"
    \/ quicPc = "accept"
    \/ \E c \in Conns : pc[c] \in {"acceptStream", "magic", "read"}
    \/ \E c \in Conns : npc[c] = "select"

\* C8: once the context given to Start is cancelled, the chassis reaches a
\* state in which none of its goroutines is blocked: Start has returned,
\* the TCP server and the QUIC accept loop have returned, and no handler
\* or notification loop waits on its stream, its queue or the context.
C8_CancelUnblocksEveryGoroutine == ctxDone ~> ~GoroutineBlocked

\* C11: the TCP configuration lists exactly h2 and http/1.1, so a TCP
\* handshake negotiates h2, http/1.1 or nothing, whatever the client offers;
\* the chassis's own configuration keeps the NextProtos it had when New
\* returned; the QUIC listener offers that list, and with the list tls.go
\* builds a QUIC client offering h3 gets h3 and one offering only the custom
\* protocol gets the custom protocol.
C11_TCPConfigIsRestrictedClone ==
    /\ tlsPc \in {"restricted", "quic", "tcp"} =>
          tlsHeap[tcpTLS] = <<"h2", "http/1.1">>
    /\ tcpNeg \in {"none", "h2", "http/1.1"}
    /\ tlsPc # "idle" => tlsHeap[tlsCfg] = tlsOrig
    /\ quicTLS # 0 => tlsHeap[quicTLS] = tlsOrig
    /\ (tlsOrig = <<"h3", "horos-mcp-v1">> /\ quicOffer # {}) =>
          /\ "h3" \in quicOffer => quicNeg = "h3"
          /\ ("h3" \notin quicOffer /\ "horos-mcp-v1" \in quicOffer) =>
                quicNeg = "horos-mcp-v1"

C11_Witness ==
    /\ tlsPc = "tcp"
    /\ tlsOrig = <<"h3", "horos-mcp-v1">>
    /\ tcpOffer = {"h2", "h3", "horos-mcp-v1"} /\ tcpNeg = "h2"
    /\ quicOffer = {"h2", "horos-mcp-v1"} /\ quicNeg = "horos-mcp-v1"

\* Start has returned an error
StartFailed == startPc = "returned" /\ startRet \notin {"none", "nil"}

\* C12: once Start has returned an error for a listener that failed to bind,
\* the chassis serves nothing: no connection is accepted any more by the
\* accept loop that Start started.
C12_NoAcceptAfterStartFailed ==
    [][StartFailed => \A c \in Conns : cstate'[c] = "accepted" => cstate[c] = "accepted"]_vars

RECURSIVE Nested(_, _)
\* ms[1](ms[2](...(ms[n](ep))...))
Nested(ms, ep) ==
    IF ms = << >> THEN ep
    ELSE LET m == Head(ms)
             inner == Nested(Tail(ms), ep)
         IN IF m.calls
            THEN <<[mw |-> m.name, ev |-> "pre"]>> \o inner
                     \o <<[mw |-> m.name, ev |-> "post"]>>
            ELSE <<[mw |-> m.name, ev |-> "pre"], [mw |-> m.name, ev |-> "post"]>>

\* the middlewares given to Chain, the first first
ChainArgs == <<chOuter>> \o chOthers

\* C13: one call of Chain(outer, others...)(endpoint) executes what
\* outer(others[1](...(others[n](endpoint)))) executes, for zero or more
\* others; when every middleware calls the endpoint it wraps, that is the
\* pre-logic of the middlewares in argument order, the endpoint exactly
\* once, and the post-logic in reverse argument order.
C13_ChainFirstIsOutermost ==
    chPc = "called" =>
        /\ chTrace = Nested(ChainArgs, <<[mw |-> "endpoint", ev |-> "call"]>>)
        /\ (\A i \in 1..Len(ChainArgs) : ChainArgs[i].calls) =>
              LET n == Len(ChainArgs) IN
              /\ Len(chTrace) = 2 * n + 1
              /\ \A i \in 1..n :
                    /\ chTrace[i] = [mw |-> ChainArgs[i].name, ev |-> "pre"]
                    /\ chTrace[2 * n + 2 - i] = [mw |-> ChainArgs[i].name, ev |-> "post"]
              /\ chTrace[n + 1] = [mw |-> "endpoint", ev |-> "call"]

C13_Witness ==
    /\ chPc = "called"
    /\ chOuter = [name |-> "a", calls |-> TRUE]
    /\ chOthers = <<[name |-> "b", calls |-> TRUE], [name |-> "c", calls |-> TRUE]>>
    /\ Len(chTrace) = 7

\* C14: when ValidateMagicBytes returns, it has taken the first 4 bytes of
\* the reader and left the rest, or all of the reader when it held fewer
\* than 4; it returns nil exactly when the bytes taken are MCP1; its error
\* matches ErrInvalidMagicBytes exactly when 4 bytes were taken and they
\* are not MCP1; and with fewer than 4 bytes it returns an error that wraps
\* the read error and does not match ErrInvalidMagicBytes, also for a
\* prefix of MCP1.
C14_MagicReadsExactlyFour ==
    mgPc = "returned" =>
        /\ mgRead \o mgReader = mgInput
        /\ Len(mgRead) = (IF Len(mgInput) >= 4 THEN 4 ELSE Len(mgInput))
        /\ mgRes = << >> <=> mgRead = <<"M", "C", "P", "1">>
        /\ ErrorsIs(mgRes, "ErrInvalidMagicBytes")
              <=> (Len(mgRead) = 4 /\ mgRead # <<"M", "C", "P", "1">>)
        /\ Len(mgInput) < 4 =>
              /\ mgRes # << >>
              /\ ~ErrorsIs(mgRes, "ErrInvalidMagicBytes")
              /\ \E e \in {"io.EOF", "io.ErrUnexpectedEOF", "read error"} :
                    ErrorsIs(mgRes, e)

C14_Witness ==
    /\ mgPc = "returned"
    /\ mgInput = <<"M", "C", "P">>
    /\ mgEnd = "eof"
    /\ mgRead = <<"M", "C", "P">>
    /\ ErrorsIs(mgRes, "io.ErrUnexpectedEOF")

\* the text of the listen address after its last colon
PortOfAddr == SubSeq(hAddr, LastColon(hAddr) + 1, Len(hAddr))

\* the response carries header n with value v
Carries(n, v) == n \in DOMAIN hResp.header /\ hResp.header[n] = v

\* C15: every response sent, on TCP or on HTTP/3 and whatever the inner
\* handler did, carries the five security headers with their fixed values
\* and Alt-Svc: h3=":<port>"; ma=86400 with the port of the listen address.
C15_EveryResponseCarriesHeaders ==
    hResp.transport # "none" =>
        /\ Carries("X-Content-Type-Options", "nosniff")
        /\ Carries("X-Frame-Options", "DENY")
        /\ Carries("Referrer-Policy", "strict-origin-when-cross-origin")
        /\ Carries("Content-Security-Policy",
                   "default-src 'self'; script-src 'self'; style-src 'self' 'unsafe-inline'; img-src 'self' data:; frame-ancestors 'none'")
        /\ Carries("Permissions-Policy", "camera=(), microphone=(), geolocation=()")
        /\ Carries("Alt-Svc", <<"h3=", "\"", ":">> \o PortOfAddr \o <<"\"", "; ma=86400">>)

\* in this step the read loop of c takes a line from the stream and gives
\* nothing to HandleMessage
LineSwallowed(c) ==
    /\ pc[c] = "read" /\ inq[c] # <<>>
    /\ inq'[c] = Tail(inq[c])
    /\ dispatched'[c] = dispatched[c]

\* C16: no zero-length line is ever given to HandleMessage; and the step in
\* which the read loop takes a line without dispatching it writes nothing,
\* prepares no response, keeps the session registered and leaves the loop
\* reading, so that the lines behind it are read next.
C16_BlankLineSwallowed ==
    /\ [](\A c \in Conns : \A i \in 1..Len(dispatched[c]) :
             dispatched[c][i].type # "blank")
    /\ [][\A c \in Conns : LineSwallowed(c) =>
             /\ pc'[c] = "read"
             /\ out' = out /\ pending' = pending /\ wire' = wire
             /\ endedBy' = endedBy /\ sessions' = sessions]_vars

C16_Witness ==
    /\ sent[1] = 2 /\ inq[1] = <<>>
    /\ dispatched[1] = <<[type |-> "req", conn |-> 1, seq |-> 2]>>
    /\ out[1] = <<[type |-> "resp", conn |-> 1, seq |-> 2]>>
    /\ pc[1] = "read"

\* d holds the term: its patterns match it, or its entries hold the term as
\* the dictionary's normalizer writes it
ContainsTerm(d, term) ==
    IF d.Method = "pattern" THEN PatternMatch(d, term)
    ELSE Normalize(d.normalize, term) \in d.Entries

\* the IDs, ascending, of the dictionaries that pass every non-empty filter
\* and hold the term
MatchingIDs(dicts, term, opts) ==
    SelectSeq(SortedIDs(dicts),
              LAMBDA id : ~FilteredOut(opts, dicts[id]) /\ ContainsTerm(dicts[id], term))

\* the one result Classify has for a dictionary set, a term and options
ClassifyResult(dicts, term, opts) ==
    LET ids == MatchingIDs(dicts, term, opts) IN
    [Term |-> term,
     Normalized |-> IF ids # << >> /\ Normalize(dicts[ids[1]].normalize, term) # << >>
                    THEN Normalize(dicts[ids[1]].normalize, term)
                    ELSE NormalizeLowercaseASCII(term),
     Matches |-> [i \in 1..Len(ids) |-> MatchOf(dicts[ids[i]])]]

\* C18: Registry.Classify is deterministic: for the loaded dictionaries, a
\* term and options, every call returns the same result, with one match per
\* dictionary that passes every non-empty filter and holds the term, in
\* ascending dictionary-ID order.
C18_ClassifyDeterministic ==
    \A g \in Callers :
        clPc[g] = "returned" =>
            clRes[g] = ClassifyResult(rDicts, clTerm[g], clOpts[g])

\* the terms a batch request carries: the array of an HTTP body; the
\* comma-separated items of an MCP argument, none when it is blank
RequestTerms ==
    IF bRoute = "http" THEN bBody.terms
    ELSE IF TrimSpace(bArg) = << >> THEN << >>
    ELSE [i \in 1..Len(Split(bArg)) |-> TrimSpace(Split(bArg)[i])]

\* the request reached the handler as a well-formed batch request
BatchHandled == bPc = "done" /\ (bRoute = "http" => bBody.ok)

\* C17: a batch of 1 to the limit's number of terms gets exactly one result
\* per term, in the order of the terms; a request with no terms or with more
\* than the limit is rejected with an error and classifies nothing; on the
\* HTTP route and on the MCP tool alike.
C17_BatchBounds ==
    BatchHandled =>
        LET n == Len(RequestTerms) IN
        IF 1 <= n /\ n <= MaxBatch
        THEN /\ bResp.kind = "results"
             /\ Len(bResp.results) = n
             /\ \A i \in 1..n : bResp.results[i].Term = RequestTerms[i]
        ELSE /\ bResp.kind = "error"
             /\ bClassified = << >>

\* downloadFile has returned
Returned == dlPc = "returned"

\* the HTTP attempts made so far
Attempts == Len(dlOutcomes)

\* the attempt got status 200 and io.Copy copied the body completely
CopiedCompletely(o) == o \in {"close", "ok"}

\* the parts of C19 that do not depend on how an attempt succeeds: at most
\* 3 attempts, none after the return; failed attempts are retried up to 3 and
\* then an error is returned; a cancellation that completes the backoff
\* select makes the call return ctx.Err() with no further attempt
RetryDiscipline ==
    /\ [](Attempts <= MaxAttempts)
    /\ [](\A i \in 1..(Attempts - 1) : dlOutcomes[i] \in Retried)
    /\ [](Returned /\ dlRet = "failed after 3 attempts" =>
             Attempts = MaxAttempts /\ \A i \in 1..Attempts : dlOutcomes[i] \in Retried)
    /\ [](Returned /\ Attempts > 0 /\ dlOutcomes[Attempts] \in Retried =>
             \/ dlRet = "failed after 3 attempts"
             \/ dlRet = "ctx.Err()" /\ dlCtxDone /\ Attempts < MaxAttempts)
    /\ [][Returned => UNCHANGED dlOutcomes]_vars
    /\ [][dlPc = "backoff" /\ dlWoken = "ctx" /\ dlPc' # "backoff" =>
             dlRet' = "ctx.Err()" /\ dlPc' = "returned" /\ UNCHANGED dlOutcomes]_vars

\* C19, as written: nil is returned at the first attempt that gets status
\* 200 and copies the body completely (and only then), with the retry
\* discipline above.
C19_DownloadAsWritten ==
    /\ RetryDiscipline
    /\ [](Returned /\ Attempts > 0 /\ CopiedCompletely(dlOutcomes[Attempts]) =>
             dlRet = "nil")

\* C19, amended: nil is returned at the first attempt that gets status 200,
\* copies the body completely and closes the destination file without
\* error, and only then; an error creating or closing the destination file
\* is returned at once, without a retry; with the retry discipline above.
C19_DownloadRetries ==
    /\ RetryDiscipline
    /\ [](Returned => (dlRet = "nil" <=> Attempts > 0 /\ dlOutcomes[Attempts] = "ok"))
    /\ [](Returned /\ Attempts > 0 /\ dlOutcomes[Attempts] \in {"create", "close"} =>
             dlRet \in {"create file", "closeErr"})

\* two failed attempts, then success at the third
C19_Witness ==
    /\ Returned /\ dlRet = "nil" /\ Attempts = MaxAttempts
    /\ dlOutcomes[1] \in Retried /\ dlOutcomes[2] \in Retried

\* C20: Seed never modifies a row that already exists, whatever Seed, SetURL
\* and UpdateCheck calls came before: every row present before a Seed is the
\* same after it, the rows it adds carry a default URL and no check, a URL
\* set with SetURL is still the row's URL after every later Seed, and only
\* SetURL changes the URL of an existing row.
C20_SeedKeepsExistingRows ==
    /\ [][sdbOp'.name = "Seed" =>
            /\ DOMAIN sdbRows \subseteq DOMAIN sdbRows'
            /\ \A id \in DOMAIN sdbRows : sdbRows'[id] = sdbRows[id]
            /\ \A id \in DOMAIN sdbRows' \ DOMAIN sdbRows :
                  /\ sdbRows'[id].source_url \in DefaultURLs
                  /\ sdbRows'[id].last_check = << >>]_vars
    /\ [](\A id \in DOMAIN sdbSet :
             id \in DOMAIN sdbRows /\ sdbRows[id].source_url = sdbSet[id])

\* a URL set by hand on a seeded row, then a Seed of the same adapter: the
\* last call was a successful Seed and the row still holds the URL set
C20_Witness ==
    /\ sdbOp = [name |-> "Seed", ok |-> TRUE]
    /\ "a1" \in DOMAIN sdbSet
    /\ sdbSet["a1"] = "https://mirror.org"
    /\ sdbRows["a1"].source_url = "https://mirror.org"
    /\ sdbRows["a1"].last_check # << >>
    /\ "a2" \in DOMAIN sdbRows

\* server.go 198-200 (and 99-109): the holder of the session's mutex s.mu.
\* Only writeNotifications takes it, around its w.Write; the read loop of
\* ServeConn calls stream.Write at line 106 without it.
SessionMuHolder(c) ==
    IF npc[c] = "locked" THEN "writeNotifications" ELSE "none"

\* the goroutines of connection c that are inside a Write on its stream
InStreamWrite(c) ==
    (IF pc[c] = "write" THEN {"ServeConn"} ELSE {})
        \cup (IF npc[c] = "locked" THEN {"writeNotifications"} ELSE {})

\* C21: every write to a session's stream is made holding the session's
\* write mutex: a goroutine that is inside a Write on the stream is the
\* holder of s.mu, so the read loop writing a reply and the goroutine
\* writing a notification are never inside a Write at the same time.
C21_WritesSerialized ==
    \A c \in Conns :
        /\ \A g \in InStreamWrite(c) : SessionMuHolder(c) = g
        /\ Cardinality(InStreamWrite(c)) <= 1

\* server.go 72, 110: the read loop of c has returned and the deferred
\* UnregisterSession has run
LoopExited(c) == pc[c] = "done" /\ unregCount[c] > 0

\* C22: once the read loop of a session has ended and the session is
\* unregistered, nothing more is written to its stream, and the goroutine
\* draining its notifications terminates: no goroutine of the session is
\* left running.
C22_SessionGoroutinesEnd ==
    /\ [][\A c \in Conns : LoopExited(c) => out'[c] = out[c]]_vars
    /\ \A c \in Conns : LoopExited(c) ~> (npc[c] = "done")

\* C23: an error of Accept that is not caused by the cancellation of the
\* context does not end the accept loop and does not make Start return: the
\* accept goroutine returns only once the context is cancelled, and Start
\* never returns a "QUIC accept" error.
C23_AcceptErrorKeepsLoop ==
    /\ [][quicPc = "accept" /\ quicPc' = "done" => ctxDone]_vars
    /\ [](startRet # "QUIC accept")

\* C24: the accept loop never waits for a connection it has handed over:
\* whenever the accept goroutine is in Accept and a connection is queued,
\* the connection can be accepted and routed at once, whatever the state of
\* the connections accepted before it (served, stalled or finished).
C24_AcceptNeverWaits ==
    (quicPc = "accept" /\ acceptQ # <<>>) => ENABLED AcceptConn

\* a second connection was accepted and routed while the handler of the
\* first is still running
C24_Witness ==
    /\ pc[1] \in {"h3", "acceptStream"}
    /\ cstate[2] = "accepted"
    /\ pc[2] \in {"h3", "acceptStream"}
    /\ quicPc = "accept"

\* server.go 67-71: RegisterSession refused the session of c and ServeConn
\* returned
RegistrationFailed(c) ==
    pc[c] = "done" /\ sid[c] # "none" /\ regCount[c] = 0

\* C25: when the registration of a session fails, the stream is closed (a
\* plain close, no error code) and ServeConn returns: the read loop is not
\* entered, no line is read or dispatched, nothing is written, the
\* notification goroutine is not started and UnregisterSession is not
\* called, so the session that owns the identity stays registered.
C25_RegistrationFailure ==
    /\ \A c \in Conns :
          RegistrationFailed(c) =>
             /\ wire[c] = <<Frame("StreamClose", StreamErrorNoError)>>
             /\ npc[c] = "none"
             /\ notifQ[c] = <<>>
             /\ dispatched[c] = <<>>
             /\ out[c] = <<>>
             /\ endedBy[c] = "none"
             /\ unregCount[c] = 0
    /\ \A c \in Conns :
          pc[c] \in {"read", "write"} => [id |-> sid[c], conn |-> c] \in sessions

\* the second connection drew the identity of the first, which is served,
\* and had a line waiting to be read
C25_Witness ==
    /\ RegistrationFailed(2)
    /\ sid[2] = sid[1]
    /\ pc[1] = "read"
    /\ inq[2] # <<>>

\* a step that leaves every handle that is set as it is
SetOnce ==
    /\ lcTcpServer # 0 => lcTcpServer' = lcTcpServer
    /\ lcQuicLn # 0 => lcQuicLn' = lcQuicLn
    /\ lcH3Server # 0 => lcH3Server' = lcH3Server

\* the sub-servers that are serving: the http.Servers inside Serve and the
\* QUIC listeners that are open
ServingNow ==
    {<<"tcp", lcServing[k]>> : k \in {j \in StartCalls : lcTcpPc[j] = "serve"}}
        \cup {<<"quic", q>> : q \in lcLnOpen}

\* part_010 135, 176: a Start call is about to write s.tcpServer under the
\* lock while a TCP goroutine is about to read it without the lock
HandleRace ==
    /\ \E k \in StartCalls : lcStartPc[k] = "locked"
    /\ \E k \in StartCalls : lcTcpPc[k] = "read"

\* C26: the handles s.tcpServer, s.quicLn and s.h3Server are set once: no
\* Start overwrites a handle that is set; when a Stop returns, no
\* sub-server that a Start began serving is left serving; and no goroutine
\* reads a handle while a Start is writing it.
C26_HandlesSetOnce ==
    /\ [][SetOnce]_vars
    /\ [][lcStopPc = "locked" /\ lcStopPc' = "idle" => ServingNow' = {}]_vars
    /\ [](~HandleRace)

\* the characters hex.EncodeToString can produce
HexChars == {HexDigit(d) : d \in 0..15}

\* an identity made of the prefix quic_ and the hex encoding of n bytes
IsQuicID(s, n) ==
    /\ Len(s) = 5 + 2 * n
    /\ SubSeq(s, 1, 5) = <<"q", "u", "i", "c", "_">>
    /\ \A i \in 6..Len(s) : s[i] \in HexChars

\* the identity of a connection is drawn once, after the handshake has
\* succeeded and not later than the registration
DrawnOnce ==
    /\ \A c \in Conns :
          /\ sid[c] # "none" => magicRes[c] = "nil"
          /\ pc[c] \in {"none", "acceptStream", "magic", "register"} => sid[c] = "none"
          /\ regCount[c] > 0 => sid[c] # "none"
    /\ [][\A c \in Conns : sid[c] # "none" => sid'[c] = sid[c]]_vars

\* C27: every session identity is quic_ followed by the hex encoding of 8
\* random bytes, 16 hexadecimal characters, and it is generated once per
\* connection, after the handshake succeeds and before registration.
C27_SessionIdentity ==
    /\ [](\A c \in Conns :
             sid[c] # "none" => IsQuicID(SessionIDChars(sid[c]), 8))
    /\ DrawnOnce

\* the sequence numbers of a sequence of notifications
SeqsOf(ms) == [i \in 1..Len(ms) |-> ms[i].seq]

\* the notification writeNotifications holds between taking it from the
\* channel and writing it
Held(c) == IF npc[c] = "locked" THEN <<nbuf[c].seq>> ELSE << >>

\* n1, n2, ... in the order pushed, with none repeated
Increasing(q) == \A i, j \in 1..Len(q) : i < j => q[i] < q[j]

\* a step of writeNotifications that drops the notification it received
\* because it cannot be marshalled
DropStep(c) ==
    /\ npc[c] = "select" /\ npc'[c] = "select"
    /\ notifQ[c] # << >>
    /\ notifQ'[c] = Tail(notifQ[c])

C29_ReloadAtomic ==
    /\ [](\A g \in Readers :
             /\ rdPc[g] = "locked" <=> g \in rlReaders
             /\ \A i \in 1..Len(rdSeen[g]) : rdSeen[g][i] = rlDicts)
    /\ [](rlLoadPc = "swap" => rlEntries = << >>)
    /\ [][rlDicts' # rlDicts =>
             /\ rlLoadPc = "swap" /\ rlEntries = << >>
             /\ rlDicts' = rlNew
             /\ rlReaders = {}
             /\ rlLoadRet' = "nil"]_vars
    /\ [][(rlLoadRet' = "err" /\ (rlLoadPc # rlLoadPc' \/ rlLoadRet # rlLoadRet'))
             => rlDicts' = rlDicts]_vars

\* a reader is between two reads of the set in place while a reload has
\* built a different set and waits for the lock; the other reader has read
\* the same set
C29_Witness ==
    /\ rdPc[1] = "locked" /\ rdOp[1] = "Classify" /\ Len(rdSeen[1]) = 1
    /\ rdPc[2] = "locked" /\ rdOp[2] = "TotalEntries" /\ Len(rdSeen[2]) = 1
    /\ rlLoadPc = "swap"
    /\ rlNew # rlDicts
    /\ rlDicts # << >>
    /\ rlLoadRet = "err"

\* the sends on errCh a goroutine of Start may still make: one while the TCP
\* goroutine has not returned, one while the accept goroutine has not
SendsToCome ==
    (IF tcpPc \in {"listen", "serve"} THEN 1 ELSE 0)
        + (IF quicPc = "accept" THEN 1 ELSE 0)

\* C30: the two goroutines Start starts never block on errCh: each sends at
\* most one error, and returns when it has sent it, so the errors sent and
\* still to be sent fit in the channel's capacity of 2 and a goroutine that
\* has an error to send can always send it, Start having returned or not.
C30_ErrChNeverBlocks ==
    /\ [](Len(errCh) + SendsToCome <= ErrChCap)
    /\ [](tcpPc = "listen" => ENABLED TcpListenFail)
    /\ []((tcpPc = "serve" /\ tcpServer = "open") => ENABLED TcpServeFail)
    /\ []((quicPc = "accept" /\ quicLn = "closed" /\ ~ctxDone) => ENABLED AcceptExitErr)
    /\ [][Len(errCh') > Len(errCh) =>
             \/ tcpPc # "done" /\ tcpPc' = "done" /\ quicPc' = quicPc
             \/ quicPc # "done" /\ quicPc' = "done" /\ tcpPc' = tcpPc]_vars

\* Start has returned the error of the TCP goroutine; the accept goroutine
\* then sent its own, which nobody receives, and returned
C30_Witness ==
    /\ startPc = "returned"
    /\ startRet \in {"TCP listen", "TCP"}
    /\ errCh = <<"QUIC accept">>
    /\ tcpPc = "done" /\ quicPc = "done"

\* C9: without an RPC server, every accepted connection that negotiated the
\* custom protocol has been closed by the accept loop with the "not
\* enabled" code and nothing else; no handler goroutine was started for it,
\* no stream accepted, no identity drawn and no session ever created.
C9_MCPDisabledClosedByAcceptLoop ==
    ~mcpHandler =>
        /\ sessions = {}
        /\ \A c \in Conns :
              (cstate[c] = "accepted" /\ alpn[c] = ALPNProtocolMCP)
              => /\ wire[c] = << Frame("CloseWithError", CodeMCPNotEnabled) >>
                 /\ pc[c] = "none"
                 /\ ~StreamAccepted(c)
                 /\ sid[c] = "none" /\ regCount[c] = 0 /\ npc[c] = "none"

C9_Witness ==
    /\ ~mcpHandler
    /\ cstate[1] = "accepted" /\ alpn[1] = ALPNProtocolMCP
    /\ opened[1]

\* C10: every close or reset frame the server has sent carries a code of the
\* enumeration: 0x00, 0x01 or 0x03 on a connection close, 0x00, 0x02 or 0x03
\* on a stream reset.
C10_CodesInEnumeration ==
    \A c \in Conns : \A i \in 1..Len(wire[c]) :
        /\ wire[c][i].op = "CloseWithError" => wire[c][i].code \in ConnCodes
        /\ wire[c][i].op \in {"CancelWrite", "CancelRead"}
              => wire[c][i].code \in StreamCodes

====
